---------------------------- MODULE Spec2Model ----------------------------
(***************************************************************************)
(* Betting settlement and staking engine of the bet builder                *)
(* (src/src/App.jsx; src/unnamed/part_000 carries the same engine).        *)
(*                                                                         *)
(* Money and odds are JavaScript numbers in the source.  Here every amount *)
(* is an integer number of cents and every odds value an integer number of *)
(* hundredths (2.00 is 200), so clamp2, i.e. Number(n.toFixed(2)), becomes  *)
(* an explicit rounding of an exact quotient to the nearest cent, the tie  *)
(* going up as toFixed prescribes for the exact value.  The representation *)
(* error of binary floating point is not modelled.                         *)
(***************************************************************************)
EXTENDS Integers, Sequences, FiniteSets, TLC

\* ------------------------------------------------------------------------
\* Constants of the program

\* const MAX_PAYOUT = 200, in cents
MAX_PAYOUT == 20000

\* the guard 1.0000001 of stakeCapForOdds: at cent resolution the odds it
\* replaces are those of at most 1.00
GuardOdds == 100

\* useState(10): the initial multi stake, in cents
DefaultMultiStake == 1000

\* ------------------------------------------------------------------------
\* Bounds of the model

\* largest odds (hundredths) the numeric specification enumerates
OddsMax == 30000
\* admin catalog mutations in one behaviour
MaxEdits == 1
\* catalog saves (forceSave) in one behaviour
MaxSaves == 2
\* betslip inputs (toggles, mode switches, stake entries) in one behaviour
MaxInputs == 3
\* bets created in one behaviour
MaxBets == 1
\* longest odds list the numeric specification combines
MaxListLen == 3
\* createBet calls in the specifications of repeated placement and of bet
\* maintenance
MaxBetsTwice == 2
\* bulk bet operations one session awaits at a time
MaxInFlight == 1

\* ------------------------------------------------------------------------
\* Generic helpers on sequences

Range(f) == { f[i] : i \in DOMAIN f }

RECURSIVE SumSeq(_)
SumSeq(s) == IF s = << >> THEN 0 ELSE Head(s) + SumSeq(Tail(s))

\* x / d rounded to the nearest integer, a tie going up (x >= 0, d > 0)
RoundDiv(x, d) == (2 * x + d) \div (2 * d)

Min2(a, b) == IF a <= b THEN a ELSE b
Max2(a, b) == IF a >= b THEN a ELSE b

\* ------------------------------------------------------------------------
\* Numeric utilities (App.jsx lines 28-31)

\* clamp2(n) for n = x / scale with x, scale integers: the result in cents.
\* (In the source n is one number; the scale is the number of decimals the
\* exact value carries beyond the cent.)
clamp2(x, scale) == RoundDiv(x, scale)

\* The exact product of a list of odds is kept as its base-100 digits, least
\* significant first, so that a product of many odds does not leave the
\* integers TLC computes with.
RECURSIVE TimesDigits(_, _, _)
TimesDigits(ds, k, carry) ==
    IF ds = << >>
    THEN IF carry = 0 THEN << >>
         ELSE << carry % 100 >> \o TimesDigits(<< >>, k, carry \div 100)
    ELSE LET x == Head(ds) * k + carry
         IN  << x % 100 >> \o TimesDigits(Tail(ds), k, x \div 100)

RECURSIVE DigitsValue(_)
DigitsValue(ds) ==
    IF ds = << >> THEN 0 ELSE Head(ds) + 100 * DigitsValue(Tail(ds))

\* the product with an odds value of 0 taken as it is (a mutant)
RECURSIVE OddsProductKeepsZero(_)
OddsProductKeepsZero(odds) ==
    IF odds = << >> THEN << 1 >>
    ELSE TimesDigits(OddsProductKeepsZero(Tail(odds)), Head(odds), 0)

\* odds.reduce((a, v) => a * (v || 1), 1): the digits of the exact product,
\* in units of 100^-Len(odds)
RECURSIVE OddsProduct(_)
OddsProduct(odds) ==
    IF odds = << >> THEN << 1 >>
    ELSE TimesDigits(OddsProduct(Tail(odds)),
                     IF Head(odds) = 0 THEN 100 ELSE Head(odds), 0)

\* multiplyOdds(odds), in hundredths: the product with the digits beyond the
\* cent dropped, one more when the first dropped digit pair is 50 or more
multiplyOdds(odds) ==
    IF odds = << >> THEN 100
    ELSE LET ds == OddsProduct(odds)
             drop == Len(odds) - 1
             kept == IF Len(ds) > drop THEN SubSeq(ds, drop + 1, Len(ds))
                     ELSE << >>
             up == drop >= 1 /\ Len(ds) >= drop /\ ds[drop] >= 50
         IN  DigitsValue(kept) + (IF up THEN 1 ELSE 0)

\* payoutFrom(stake, odds) = clamp2((stake || 0) * (odds || 1)), in cents.
\* stake * odds / 100 is split at the whole part of the odds, which needs no
\* rounding.
payoutFrom(stake, odds) ==
    LET o == IF odds = 0 THEN 100 ELSE odds
    IN  stake * (o \div 100) + clamp2(stake * (o % 100), 100)

\* mutants of stakeCapForOdds: Math.ceil for Math.floor; a cap one cent short
stakeCapRoundsUp(odds) ==
    IF odds <= GuardOdds
    THEN Max2(0, MAX_PAYOUT)
    ELSE Max2(0, ((MAX_PAYOUT * 100) + odds - 1) \div odds)

stakeCapOneCentShort(odds) ==
    IF odds <= GuardOdds
    THEN Max2(0, MAX_PAYOUT - 2)
    ELSE Max2(0, ((MAX_PAYOUT * 100) \div odds) - 1)

\* stakeCapForOdds(odds) =
\*   clamp2(max(0, floor((MAX_PAYOUT / max(odds, 1.0000001)) * 100) / 100))
\* in cents: the floor of MAX_PAYOUT / max(odds, 1.0000001) at the cent.
\* For odds <= 1.00 the divisor is 1.0000001 and the quotient
\* 199.99998..., whose floor at the cent is MAX_PAYOUT less one cent.
stakeCapForOdds(odds) ==
    IF odds <= GuardOdds
    THEN Max2(0, MAX_PAYOUT - 1)
    ELSE Max2(0, (MAX_PAYOUT * 100) \div odds)

\* ------------------------------------------------------------------------
\* Text (App.jsx line 32).  A string is the sequence of its characters.

UpperCase == <<"A", "B", "C", "D", "E", "F", "G", "H", "I", "J", "K", "L", "M",
               "N", "O", "P", "Q", "R", "S", "T", "U", "V", "W", "X", "Y", "Z">>
LowerCase == <<"a", "b", "c", "d", "e", "f", "g", "h", "i", "j", "k", "l", "m",
               "n", "o", "p", "q", "r", "s", "t", "u", "v", "w", "x", "y", "z">>
WhiteSpace == {" ", "\t", "\n"}

toLowerCaseChar(c) ==
    IF \E i \in DOMAIN UpperCase : UpperCase[i] = c
    THEN LowerCase[CHOOSE i \in DOMAIN UpperCase : UpperCase[i] = c]
    ELSE c

\* String.prototype.toLowerCase
toLowerCase(str) == [i \in DOMAIN str |-> toLowerCaseChar(str[i])]

RECURSIVE trimStart(_)
trimStart(str) ==
    IF str # << >> /\ Head(str) \in WhiteSpace THEN trimStart(Tail(str))
    ELSE str

RECURSIVE trimEnd(_)
trimEnd(str) ==
    IF str # << >> /\ str[Len(str)] \in WhiteSpace
    THEN trimEnd(SubSeq(str, 1, Len(str) - 1))
    ELSE str

\* String.prototype.trim
trim(str) == trimEnd(trimStart(str))

\* a key that keeps the case of the name and the email (a mutant)
makeUserKeyKeepsCase(name, email) == trim(name) \o <<"|">> \o trim(email)

\* makeUserKey(name, email) =
\*   `${name}`.trim().toLowerCase() + "|" + `${email}`.trim().toLowerCase()
makeUserKey(name, email) ==
    toLowerCase(trim(name)) \o <<"|">> \o toLowerCase(trim(email))

\* ------------------------------------------------------------------------
\* Inputs the model enumerates

\* the browser sessions: s1 plays and may unlock the admin tools, s2 is a
\* second client used as an admin console only
Sessions == {"s1", "s2"}
Players == {"s1"}

\* the name localStorage holds for a session that has passed the gate
NameOf(s) == IF s \in Players THEN <<"A", "l">> ELSE <<"B", "o">>

\* odds an admin types into the odds field (parseFloat(value) || 0)
OddsInputs == {0, 150, 300}
\* stakes a player types into a stake field
StakeInputs == {0, 6000, 20000}
\* odds the numeric specification combines into lists
OddsListValues == {0, 100, 150, 185, 205}
OddsLists == UNION { [1..n -> OddsListValues] : n \in 0..MaxListLen }
Results == {"pending", "won", "lost"}
Modes == {"multi", "singles"}

\* ------------------------------------------------------------------------
\* State

VARIABLES
    cloud,          \* the persisted catalog document config/current
    betsDb,         \* the persisted bets collection: bet id -> record
    nextBetId,      \* ids and timestamps the store has handed out so far
    inbox,          \* inbox[s]: catalog snapshots on their way to session s
    nextUid,        \* uid(): the next unused market / leg id
    config,         \* config[s]: the session's working catalog
    bets,           \* bets[s]: the bets snapshot the session last received
    slip,           \* slip[s]: the selected leg ids
    mode,           \* mode[s]: "multi" | "singles"
    multiStake,     \* multiStake[s], in cents
    singleStakes,   \* singleStakes[s]: leg id -> stake in cents
    isAdmin,        \* isAdmin[s]
    pendingBets,    \* pendingBets[s]: addDoc calls awaiting the store
    edits,          \* admin catalog mutations made so far
    inputs,         \* betslip inputs made so far
    saves,          \* catalog saves made so far
    shown,          \* shown[s]: the settlements the session last rendered
    authed,         \* authed[s]: the access gate was passed
    userName,       \* userName[s]: the bettor name, empty while none is given
    userEmail,      \* userEmail[s]: the bettor email, empty while none is given
    placeMsg,       \* placeMsg[s]: the message placeBet last raised, "" if none
    archive,        \* the persisted bets_archive collection: bet id -> record
    maint,          \* maint[s]: the bulk bet operations the session awaits
    calc            \* the numeric specification's input and results

storeVars == <<cloud, betsDb, nextBetId, inbox>>
slipVars == <<slip, mode, multiStake, singleStakes>>
vars == <<cloud, betsDb, nextBetId, inbox, nextUid, config, bets, slip, mode,
          multiStake, singleStakes, isAdmin, pendingBets, edits, inputs,
          saves, shown, authed, userName, userEmail, placeMsg, archive, maint,
          calc>>
gateVars == <<authed, userName, userEmail>>
maintVars == <<archive, maint>>

\* ------------------------------------------------------------------------
\* Catalog (App.jsx lines 52-85, 306-310)

NewLeg(id) ==
    [id |-> id, label |-> "New Leg", odds |-> 200, active |-> TRUE,
     result |-> "pending"]

NewMarket(id) ==
    [id |-> id, name |-> "New Market", active |-> TRUE, legs |-> << >>]

\* The catalog the store holds when the behaviour starts, which the first
\* catalog snapshot puts in place of defaultConfig: a catalog of the shape
\* of defaultConfig, cut to two markets of one leg each, with the ids uid()
\* drew and with odds an admin has saved (2.00 and 3.00).
InitialCatalog ==
    [eventTitle |-> "Demo Match",
     markets |-> <<
        [id |-> 1, name |-> "Match Result", active |-> TRUE,
         legs |-> << [id |-> 3, label |-> "Sydney Win", odds |-> 200,
                      active |-> TRUE, result |-> "pending"] >>],
        [id |-> 2, name |-> "Anytime Tryscorer", active |-> TRUE,
         legs |-> << [id |-> 4, label |-> "Player B", odds |-> 300,
                      active |-> TRUE, result |-> "pending"] >>] >>]

\* { ...l, ...patch }
Merge(l, patch) ==
    [f \in DOMAIN l |-> IF f \in DOMAIN patch THEN patch[f] ELSE l[f]]

MapSeq(s, Op(_)) == [i \in DOMAIN s |-> Op(s[i])]

\* m.legs.map((l) => ({ ...l, marketId, marketName, marketActive }))
AnnotatedLegs(m) ==
    MapSeq(m.legs, LAMBDA l :
        [id |-> l.id, label |-> l.label, odds |-> l.odds, active |-> l.active,
         result |-> l.result, marketId |-> m.id, marketName |-> m.name,
         marketActive |-> m.active])

RECURSIVE FlatMap(_)
FlatMap(ms) ==
    IF ms = << >> THEN << >> ELSE AnnotatedLegs(Head(ms)) \o FlatMap(Tail(ms))

\* flatLegs: config.markets.flatMap(...)
flatLegs(cfg) == FlatMap(cfg.markets)

\* selectedLegs that looks at the leg's own flag only (a mutant)
selectedLegsIgnoresMarket(cfg, sl) ==
    SelectSeq(flatLegs(cfg), LAMBDA l : l.id \in Range(sl) /\ l.active)

\* selectedLegs: flatLegs.filter(l => slip.includes(l.id) && l.active !==
\* false && l.marketActive)
selectedLegs(cfg, sl) ==
    SelectSeq(flatLegs(cfg),
              LAMBDA l : l.id \in Range(sl) /\ l.active /\ l.marketActive)

LegIdsOf(cfg) == { l.id : l \in Range(flatLegs(cfg)) }
MarketIdsOf(cfg) == { m.id : m \in Range(cfg.markets) }

\* ------------------------------------------------------------------------
\* Betslip math (App.jsx lines 317-320)

OddsOf(legs) == MapSeq(legs, LAMBDA l : l.odds)

\* singleCaps[l.id] for a selected leg l
singleCap(l) == stakeCapForOdds(l.odds)

totalOdds(cfg, sl) == multiplyOdds(OddsOf(selectedLegs(cfg, sl)))

\* an effective stake that is the stake as entered (a mutant)
clampedMultiStakeAsEntered(cfg, sl, stake) == stake

\* multiCap = stakeCapForOdds(totalOdds || 1)
multiCap(cfg, sl) ==
    stakeCapForOdds(IF totalOdds(cfg, sl) = 0 THEN 100 ELSE totalOdds(cfg, sl))

clampedMultiStake(cfg, sl, stake) == Min2(stake, multiCap(cfg, sl))

\* the payout the betslip shows in multi mode:
\* payoutFrom(clampedMultiStake, totalOdds)
payout(cfg, sl, stake) ==
    payoutFrom(clampedMultiStake(cfg, sl, stake), totalOdds(cfg, sl))

\* singleStakes[l.id] || 0
singleStakeOf(stakes, legId) ==
    IF legId \in DOMAIN stakes THEN stakes[legId] ELSE 0

\* the singles stake total without the caps (a mutant)
totalSinglesStakeUncapped(legs, stakes) ==
    SumSeq(MapSeq(legs, LAMBDA l : singleStakeOf(stakes, l.id)))

\* selectedLegs.reduce((acc, l) =>
\*   acc + Math.min(singleStakes[l.id] || 0, singleCaps[l.id] || 0), 0)
totalSinglesStake(legs, stakes) ==
    SumSeq(MapSeq(legs, LAMBDA l :
        Min2(singleStakeOf(stakes, l.id), singleCap(l))))

\* selectedLegs.reduce((acc, l) => acc + payoutFrom(
\*   Math.min(singleStakes[l.id] || 0, singleCaps[l.id] || 0), l.odds), 0)
totalSinglesPayout(legs, stakes) ==
    SumSeq(MapSeq(legs, LAMBDA l :
        payoutFrom(Min2(singleStakeOf(stakes, l.id), singleCap(l)), l.odds)))

\* ------------------------------------------------------------------------
\* Leg result lookup and settlement (App.jsx lines 458-476)

\* mutant of legResult: a lookup miss counted as won
legResultDefaultsWon(cfg, legId) ==
    IF \E l \in Range(flatLegs(cfg)) : l.id = legId
    THEN (CHOOSE l \in Range(flatLegs(cfg)) : l.id = legId).result
    ELSE "won"

\* legResult: flatLegs.find(l => l.id === legId)?.result || "pending"
legResult(cfg, legId) ==
    IF \E l \in Range(flatLegs(cfg)) : l.id = legId
    THEN LET i == CHOOSE i \in DOMAIN flatLegs(cfg) :
                    /\ flatLegs(cfg)[i].id = legId
                    /\ \A j \in 1..(i - 1) : flatLegs(cfg)[j].id # legId
         IN  flatLegs(cfg)[i].result
    ELSE "pending"

\* (bet.stakesByLeg || {})[legId], 0 standing for undefined
stakeByLeg(bet, legId) ==
    IF "stakesByLeg" \in DOMAIN bet
    THEN IF legId \in DOMAIN bet.stakesByLeg THEN bet.stakesByLeg[legId] ELSE 0
    ELSE 0

\* bet.multiStake || 0
multiStakeOf(bet) == IF "multiStake" \in DOMAIN bet THEN bet.multiStake ELSE 0

\* mutant of stakedLegs: the filter on the stake left out
stakedLegsUnfiltered(bet) == bet.legs

\* bet.legs.filter(l => (bet.stakesByLeg || {})[l.legId] > 0)
stakedLegs(bet) == SelectSeq(bet.legs, LAMBDA l : stakeByLeg(bet, l.legId) > 0)

\* mutant of settleMultiStatus: some() where every() is meant
settleMultiStatusAnyWon(cfg, bet) ==
    LET anyLost == \E i \in DOMAIN bet.legs :
                        legResult(cfg, bet.legs[i].legId) = "lost"
        anyWon == \E i \in DOMAIN bet.legs :
                        legResult(cfg, bet.legs[i].legId) = "won"
    IN  IF anyLost THEN "Lost" ELSE IF anyWon THEN "Won" ELSE "Pending"

\* mutant of settleMultiStatus: a lost leg anywhere in the catalog counts
settleMultiStatusAnyCatalogLeg(cfg, bet) ==
    LET anyLost == \E l \in Range(flatLegs(cfg)) : l.result = "lost"
        allWon == \A i \in DOMAIN bet.legs :
                        legResult(cfg, bet.legs[i].legId) = "won"
    IN  IF anyLost THEN "Lost" ELSE IF allWon THEN "Won" ELSE "Pending"

\* const status = anyLost ? "Lost" : allWon ? "Won" : "Pending"
settleMultiStatus(cfg, bet) ==
    LET anyLost == \E i \in DOMAIN bet.legs :
                        legResult(cfg, bet.legs[i].legId) = "lost"
        allWon == \A i \in DOMAIN bet.legs :
                        legResult(cfg, bet.legs[i].legId) = "won"
    IN  IF anyLost THEN "Lost" ELSE IF allWon THEN "Won" ELSE "Pending"

\* const status = anyPending ? "Pending" : (anyLost && anyWon) ? "Mixed"
\*              : anyLost ? "Lost" : anyWon ? "Won" : "Pending"
settleSinglesStatus(cfg, bet) ==
    LET legs == stakedLegs(bet)
        anyPending == \E i \in DOMAIN legs :
                        legResult(cfg, legs[i].legId) = "pending"
        anyLost == \E i \in DOMAIN legs : legResult(cfg, legs[i].legId) = "lost"
        anyWon == \E i \in DOMAIN legs : legResult(cfg, legs[i].legId) = "won"
    IN  IF anyPending THEN "Pending"
        ELSE IF anyLost /\ anyWon THEN "Mixed"
        ELSE IF anyLost THEN "Lost"
        ELSE IF anyWon THEN "Won"
        ELSE "Pending"

\* the current odds of a leg of the catalog, or the given odds on a miss
LiveOdds(cfg, legId, odds) ==
    IF \E l \in Range(flatLegs(cfg)) : l.id = legId
    THEN (CHOOSE l \in Range(flatLegs(cfg)) : l.id = legId).odds
    ELSE odds

\* mutant of settleBet: the payout computed from the catalog's current odds
settleBetLiveOdds(cfg, bet) ==
    IF bet.mode = "multi"
    THEN [status |-> settleMultiStatus(cfg, bet),
          potentialPayout |->
              payoutFrom(multiStakeOf(bet), multiplyOdds(
                  MapSeq(bet.legs, LAMBDA l : LiveOdds(cfg, l.legId, l.odds))))]
    ELSE [status |-> settleSinglesStatus(cfg, bet),
          potentialPayout |->
              SumSeq(MapSeq(stakedLegs(bet), LAMBDA l :
                  payoutFrom(stakeByLeg(bet, l.legId),
                             LiveOdds(cfg, l.legId, l.odds))))]

\* mutant of settleBet: a lost bet reported with no payout
settleBetNothingWhenLost(cfg, bet) ==
    IF bet.mode = "multi"
    THEN [status |-> settleMultiStatus(cfg, bet),
          potentialPayout |->
              IF settleMultiStatus(cfg, bet) = "Lost" THEN 0
              ELSE payoutFrom(multiStakeOf(bet), multiplyOdds(OddsOf(bet.legs)))]
    ELSE [status |-> settleSinglesStatus(cfg, bet),
          potentialPayout |->
              IF settleSinglesStatus(cfg, bet) = "Lost" THEN 0
              ELSE SumSeq(MapSeq(stakedLegs(bet), LAMBDA l :
                      payoutFrom(stakeByLeg(bet, l.legId), l.odds)))]

\* settleBet(bet), with the catalog whose flatLegs legResult reads
settleBet(cfg, bet) ==
    IF bet.mode = "multi"
    THEN [status |-> settleMultiStatus(cfg, bet),
          potentialPayout |->
              payoutFrom(multiStakeOf(bet), multiplyOdds(OddsOf(bet.legs)))]
    ELSE [status |-> settleSinglesStatus(cfg, bet),
          potentialPayout |->
              SumSeq(MapSeq(stakedLegs(bet), LAMBDA l :
                  payoutFrom(stakeByLeg(bet, l.legId), l.odds)))]

\* ------------------------------------------------------------------------
\* The bets stream (App.jsx lines 206-217): ordered by placedAt descending,
\* then by document id descending

Newest(db, ids) ==
    CHOOSE i \in ids : \A j \in ids :
        \/ db[i].placedAt > db[j].placedAt
        \/ db[i].placedAt = db[j].placedAt /\ i >= j

RECURSIVE BetsStream(_, _)
BetsStream(db, ids) ==
    IF ids = {} THEN << >>
    ELSE LET i == Newest(db, ids)
         IN  << Merge(db[i] @@ [id |-> i], [id |-> i]) >>
                 \o BetsStream(db, ids \ {i})

\* snapshot.docs.map(d => ({ ...d.data(), id: d.id }))
betsSnapshot(db) == BetsStream(db, DOMAIN db)

\* ------------------------------------------------------------------------
\* Initial state.  Every session starts past the access gate, with the name
\* localStorage kept for it (App.jsx lines 145-150).

NoCalc == [pc |-> "off"]

Init ==
    /\ cloud = InitialCatalog
    /\ betsDb = << >>
    /\ nextBetId = 1
    /\ inbox = [s \in Sessions |-> << >>]
    /\ nextUid = 5
    /\ config = [s \in Sessions |-> InitialCatalog]
    /\ bets = [s \in Sessions |-> << >>]
    /\ slip = [s \in Sessions |-> << >>]
    /\ mode = [s \in Sessions |-> "multi"]
    /\ multiStake = [s \in Sessions |-> DefaultMultiStake]
    /\ singleStakes = [s \in Sessions |-> << >>]
    /\ isAdmin = [s \in Sessions |-> s \notin Players]
    /\ pendingBets = [s \in Sessions |-> << >>]
    /\ edits = 0
    /\ inputs = 0
    /\ saves = 0
    /\ shown = [s \in Sessions |-> << >>]
    /\ authed = [s \in Sessions |-> TRUE]
    /\ userName = [s \in Sessions |-> NameOf(s)]
    /\ userEmail = [s \in Sessions |-> << >>]
    /\ placeMsg = [s \in Sessions |-> ""]
    /\ archive = << >>
    /\ maint = [s \in Sessions |-> << >>]
    /\ calc = NoCalc

\* ------------------------------------------------------------------------
\* Snapshot subscriptions (App.jsx lines 183-194, 206-217)

\* a delivery that takes the title and keeps the local markets (a mutant)
configSnapshotKeepsMarkets(s) ==
    /\ inbox[s] # << >>
    /\ config' = [config EXCEPT
            ![s] = [@ EXCEPT !.eventTitle = Head(inbox[s]).eventTitle]]
    /\ inbox' = [inbox EXCEPT ![s] = Tail(@)]
    /\ UNCHANGED <<cloud, betsDb, nextBetId, nextUid, bets, slipVars, isAdmin,
                   pendingBets, edits, inputs, saves, shown, gateVars, placeMsg,
                   maintVars, calc>>

\* onSnapshot(configRef): setConfig(docSnap.data())
configSnapshot(s) ==
    /\ inbox[s] # << >>
    /\ config' = [config EXCEPT ![s] = Head(inbox[s])]
    /\ inbox' = [inbox EXCEPT ![s] = Tail(@)]
    /\ UNCHANGED <<cloud, betsDb, nextBetId, nextUid, bets, slipVars, isAdmin,
                   pendingBets, edits, inputs, saves, shown, gateVars, placeMsg,
                   maintVars, calc>>

\* onSnapshot(q): setBets(allBets)
betsSnapshotDelivered(s) ==
    /\ bets[s] # betsSnapshot(betsDb)
    /\ bets' = [bets EXCEPT ![s] = betsSnapshot(betsDb)]
    /\ UNCHANGED <<storeVars, nextUid, config, slipVars, isAdmin, pendingBets,
                   edits, inputs, saves, shown, gateVars, placeMsg,
                   maintVars, calc>>

\* ------------------------------------------------------------------------
\* Admin PIN (App.jsx lines 541-559, 588-601)

unlockAdmin(s) ==
    /\ ~isAdmin[s]
    /\ isAdmin' = [isAdmin EXCEPT ![s] = TRUE]
    /\ UNCHANGED <<storeVars, nextUid, config, bets, slipVars, pendingBets,
                   edits, inputs, saves, shown, gateVars, placeMsg,
                   maintVars, calc>>

turnOffAdmin(s) ==
    /\ isAdmin[s]
    /\ isAdmin' = [isAdmin EXCEPT ![s] = FALSE]
    /\ UNCHANGED <<storeVars, nextUid, config, bets, slipVars, pendingBets,
                   edits, inputs, saves, shown, gateVars, placeMsg,
                   maintVars, calc>>

\* ------------------------------------------------------------------------
\* Access gate (App.jsx lines 479-510, 527-539).  A wrong access code or a
\* blank name returns after its toast and changes nothing.

Names(s) == {<< >>, <<" ">>, NameOf(s)}

\* the name field of the gate: setUserName(e.target.value)
setUserName(s, n) ==
    /\ ~authed[s]
    /\ userName[s] # n
    /\ userName' = [userName EXCEPT ![s] = n]
    /\ UNCHANGED <<storeVars, nextUid, config, bets, slipVars, isAdmin,
                   pendingBets, edits, inputs, saves, shown, authed, userEmail,
                   placeMsg, maintVars, calc>>

\* the email field of the gate: setUserEmail(e.target.value)
setUserEmail(s, e) ==
    /\ ~authed[s]
    /\ userEmail[s] # e
    /\ userEmail' = [userEmail EXCEPT ![s] = e]
    /\ UNCHANGED <<storeVars, nextUid, config, bets, slipVars, isAdmin,
                   pendingBets, edits, inputs, saves, shown, authed, userName,
                   placeMsg, maintVars, calc>>

\* Enter, with the access code: if (!userName.trim()) return;
\* setAuthed(true)
enterAccess(s) ==
    /\ ~authed[s]
    /\ trim(userName[s]) # << >>
    /\ authed' = [authed EXCEPT ![s] = TRUE]
    /\ UNCHANGED <<storeVars, nextUid, config, bets, slipVars, isAdmin,
                   pendingBets, edits, inputs, saves, shown, userName,
                   userEmail, placeMsg, maintVars, calc>>

\* Log out: setAuthed(false); setUserName(""); setUserEmail("")
logOut(s) ==
    /\ authed[s]
    /\ authed' = [authed EXCEPT ![s] = FALSE]
    /\ userName' = [userName EXCEPT ![s] = << >>]
    /\ userEmail' = [userEmail EXCEPT ![s] = << >>]
    /\ UNCHANGED <<storeVars, nextUid, config, bets, slipVars, isAdmin,
                   pendingBets, edits, inputs, saves, shown, placeMsg,
                   maintVars, calc>>

\* ------------------------------------------------------------------------
\* Admin catalog mutations (App.jsx lines 326-408, 678).  Each computes the
\* whole new catalog from the working copy and installs it with setConfig.

CanEdit(s) == isAdmin[s] /\ edits < MaxEdits

SetConfig(s, newConfig) ==
    /\ newConfig # config[s]
    /\ config' = [config EXCEPT ![s] = newConfig]
    /\ edits' = edits + 1

addMarket(s) ==
    /\ CanEdit(s)
    /\ SetConfig(s, [config[s] EXCEPT
            !.markets = Append(config[s].markets, NewMarket(nextUid))])
    /\ nextUid' = nextUid + 1
    /\ UNCHANGED <<storeVars, bets, slipVars, isAdmin, pendingBets, inputs,
                   saves, shown, gateVars, placeMsg,
                   maintVars, calc>>

removeMarket(s, marketId) ==
    /\ CanEdit(s)
    /\ marketId \in MarketIdsOf(config[s])
    /\ SetConfig(s, [config[s] EXCEPT
            !.markets = SelectSeq(config[s].markets,
                                  LAMBDA m : m.id # marketId)])
    /\ UNCHANGED <<storeVars, nextUid, bets, slipVars, isAdmin, pendingBets,
                   inputs, saves, shown, gateVars, placeMsg,
                   maintVars, calc>>

updateMarket(s, marketId, patch) ==
    /\ CanEdit(s)
    /\ marketId \in MarketIdsOf(config[s])
    /\ SetConfig(s, [config[s] EXCEPT
            !.markets = MapSeq(config[s].markets, LAMBDA m :
                IF m.id = marketId THEN Merge(m, patch) ELSE m)])
    /\ UNCHANGED <<storeVars, nextUid, bets, slipVars, isAdmin, pendingBets,
                   inputs, saves, shown, gateVars, placeMsg,
                   maintVars, calc>>

addLeg(s, marketId) ==
    /\ CanEdit(s)
    /\ marketId \in MarketIdsOf(config[s])
    /\ SetConfig(s, [config[s] EXCEPT
            !.markets = MapSeq(config[s].markets, LAMBDA m :
                IF m.id = marketId
                THEN [m EXCEPT !.legs = Append(m.legs, NewLeg(nextUid))]
                ELSE m)])
    /\ nextUid' = nextUid + 1
    /\ UNCHANGED <<storeVars, bets, slipVars, isAdmin, pendingBets, inputs,
                   saves, shown, gateVars, placeMsg,
                   maintVars, calc>>

\* removeLeg without its setSlip (a mutant)
removeLegKeepsSlip(s, marketId, legId) ==
    /\ CanEdit(s)
    /\ \E m \in Range(config[s].markets) :
            m.id = marketId /\ \E l \in Range(m.legs) : l.id = legId
    /\ SetConfig(s, [config[s] EXCEPT
            !.markets = MapSeq(config[s].markets, LAMBDA m :
                IF m.id = marketId
                THEN [m EXCEPT !.legs = SelectSeq(m.legs,
                                            LAMBDA l : l.id # legId)]
                ELSE m)])
    /\ UNCHANGED <<storeVars, nextUid, bets, slipVars, isAdmin, pendingBets,
                   inputs, saves, shown, gateVars, placeMsg, maintVars, calc>>

\* removeLeg: setConfig(newConfig); setSlip(ids => ids.filter(id !== legId))
removeLeg(s, marketId, legId) ==
    /\ CanEdit(s)
    /\ \E m \in Range(config[s].markets) :
            m.id = marketId /\ \E l \in Range(m.legs) : l.id = legId
    /\ SetConfig(s, [config[s] EXCEPT
            !.markets = MapSeq(config[s].markets, LAMBDA m :
                IF m.id = marketId
                THEN [m EXCEPT !.legs = SelectSeq(m.legs,
                                            LAMBDA l : l.id # legId)]
                ELSE m)])
    /\ slip' = [slip EXCEPT ![s] = SelectSeq(slip[s], LAMBDA id : id # legId)]
    /\ UNCHANGED <<storeVars, nextUid, bets, mode, multiStake, singleStakes,
                   isAdmin, pendingBets, inputs,
                   saves, shown, gateVars, placeMsg,
                   maintVars, calc>>

updateLeg(s, marketId, legId, patch) ==
    /\ CanEdit(s)
    /\ \E m \in Range(config[s].markets) :
            m.id = marketId /\ \E l \in Range(m.legs) : l.id = legId
    /\ SetConfig(s, [config[s] EXCEPT
            !.markets = MapSeq(config[s].markets, LAMBDA m :
                IF m.id = marketId
                THEN [m EXCEPT !.legs = MapSeq(m.legs, LAMBDA l :
                          IF l.id = legId THEN Merge(l, patch) ELSE l)]
                ELSE m)])
    /\ UNCHANGED <<storeVars, nextUid, bets, slipVars, isAdmin, pendingBets,
                   inputs, saves, shown, gateVars, placeMsg,
                   maintVars, calc>>

\* the title editor: setConfig({ ...config, eventTitle: e.target.value })
setEventTitle(s, title) ==
    /\ CanEdit(s)
    /\ SetConfig(s, [config[s] EXCEPT !.eventTitle = title])
    /\ UNCHANGED <<storeVars, nextUid, bets, slipVars, isAdmin, pendingBets,
                   inputs, saves, shown, gateVars, placeMsg, maintVars, calc>>

\* ------------------------------------------------------------------------
\* Bulk reset of the results (src/unnamed/part_000 lines 369-393, 938-954)

\* a reset that leaves the legs of inactive markets as they are (a mutant)
LegsResetActiveOnly(cfg) ==
    [cfg EXCEPT !.markets = MapSeq(cfg.markets, LAMBDA m :
        IF m.active
        THEN [m EXCEPT !.legs = MapSeq(m.legs, LAMBDA l :
                  Merge(l, [result |-> "pending"]))]
        ELSE m)]

\* { ...config, markets: config.markets.map(m => ({ ...m,
\*     legs: m.legs.map(l => ({ ...l, result: "pending" })) })) }
LegsReset(cfg) ==
    [cfg EXCEPT !.markets = MapSeq(cfg.markets, LAMBDA m :
        [m EXCEPT !.legs = MapSeq(m.legs, LAMBDA l :
            Merge(l, [result |-> "pending"]))])]

\* the "Reset all legs" button of the admin bar: setConfig(newConfig)
resetAllLegs(s) ==
    /\ CanEdit(s)
    /\ SetConfig(s, LegsReset(config[s]))
    /\ UNCHANGED <<storeVars, nextUid, bets, slipVars, isAdmin, pendingBets,
                   inputs, saves, shown, gateVars, placeMsg, maintVars, calc>>

\* resetAllLegsToPending: setConfig(newConfig), then
\* await setDoc(doc(db, "config", "current"), newConfig), which the store
\* takes or rejects.  The function is bound to no control of the view.
resetAllLegsToPending(s) ==
    /\ CanEdit(s)
    /\ SetConfig(s, LegsReset(config[s]))
    /\ \/ /\ cloud' = LegsReset(config[s])
          /\ inbox' = [t \in Sessions |->
                IF t = s THEN inbox[t]
                ELSE Append(inbox[t], LegsReset(config[s]))]
       \/ UNCHANGED <<cloud, inbox>>
    /\ UNCHANGED <<betsDb, nextBetId, nextUid, bets, slipVars, isAdmin,
                   pendingBets, inputs, saves, shown, gateVars, placeMsg,
                   maintVars, calc>>

\* the patches the admin panels issue
MarketPatches == {[active |-> TRUE], [active |-> FALSE], [name |-> "Renamed"]}
LegPatches ==
    { [odds |-> o] : o \in OddsInputs } \cup
    { [result |-> r] : r \in Results } \cup
    { [active |-> b] : b \in BOOLEAN } \cup
    { [label |-> "Relabelled"] }

\* a save the store drops once a catalog has been saved (a mutant)
forceSaveFirstWins(s) ==
    /\ isAdmin[s]
    /\ cloud # config[s]
    /\ saves < MaxSaves
    /\ saves' = saves + 1
    /\ cloud' = IF saves = 0 THEN config[s] ELSE cloud
    /\ inbox' = [t \in Sessions |->
            IF t = s THEN inbox[t]
            ELSE Append(inbox[t], IF saves = 0 THEN config[s] ELSE cloud)]
    /\ UNCHANGED <<betsDb, nextBetId, nextUid, config, bets, slipVars, isAdmin,
                   pendingBets, edits, inputs, shown, gateVars, placeMsg,
                   maintVars, calc>>

\* forceSave: setDoc(doc(db, "config", "current"), config).  The store
\* notifies every other subscribed session of the new document.
forceSave(s) ==
    /\ isAdmin[s]
    /\ cloud # config[s]
    /\ saves < MaxSaves
    /\ saves' = saves + 1
    /\ cloud' = config[s]
    /\ inbox' = [t \in Sessions |->
            IF t = s THEN inbox[t] ELSE Append(inbox[t], config[s])]
    /\ UNCHANGED <<betsDb, nextBetId, nextUid, config, bets, slipVars, isAdmin,
                   pendingBets, edits, inputs, shown, gateVars, placeMsg,
                   maintVars, calc>>

\* ------------------------------------------------------------------------
\* Betslip (App.jsx lines 694-696, 712, 958-959, 979-993, 1013-1018)

\* a toggle that appends the id whether or not it is selected (a mutant)
toggleSelectAppends(prev, legId) == Append(prev, legId)

\* prev.includes(legId) ? prev.filter((id) => id !== legId) : [...prev, legId]
toggleSelect(prev, legId) ==
    IF legId \in Range(prev)
    THEN SelectSeq(prev, LAMBDA id : id # legId)
    ELSE Append(prev, legId)

\* onToggleSelect: offered on every listed leg while the admin tools are off
onToggleSelect(s, legId) ==
    /\ inputs < MaxInputs
    /\ inputs' = inputs + 1
    /\ ~isAdmin[s]
    /\ legId \in LegIdsOf(config[s])
    /\ slip' = [slip EXCEPT ![s] = toggleSelect(slip[s], legId)]
    /\ UNCHANGED <<storeVars, nextUid, config, bets, mode, multiStake,
                   singleStakes, isAdmin, pendingBets, edits, saves, shown, gateVars, placeMsg,
                   maintVars, calc>>

\* onRemove: the x button of a betslip row
onRemove(s, legId) ==
    /\ inputs < MaxInputs
    /\ inputs' = inputs + 1
    /\ \E l \in Range(selectedLegs(config[s], slip[s])) : l.id = legId
    /\ slip' = [slip EXCEPT ![s] = SelectSeq(slip[s], LAMBDA id : id # legId)]
    /\ UNCHANGED <<storeVars, nextUid, config, bets, mode, multiStake,
                   singleStakes, isAdmin, pendingBets, edits, saves, shown, gateVars, placeMsg,
                   maintVars, calc>>

setMode(s, m) ==
    /\ inputs < MaxInputs
    /\ inputs' = inputs + 1
    /\ mode[s] # m
    /\ mode' = [mode EXCEPT ![s] = m]
    /\ UNCHANGED <<storeVars, nextUid, config, bets, slip, multiStake,
                   singleStakes, isAdmin, pendingBets, edits, saves, shown, gateVars, placeMsg,
                   maintVars, calc>>

\* the multi stake input: setMultiStake(clamp2(Math.min(v, multiCap)))
multiStakeInput(s, val) ==
    /\ inputs < MaxInputs
    /\ inputs' = inputs + 1
    /\ mode[s] = "multi"
    /\ selectedLegs(config[s], slip[s]) # << >>
    /\ multiStake' = [multiStake EXCEPT ![s] =
            Min2(Max2(0, val), multiCap(config[s], slip[s]))]
    /\ multiStake'[s] # multiStake[s]
    /\ UNCHANGED <<storeVars, nextUid, config, bets, slip, mode, singleStakes,
                   isAdmin, pendingBets, edits, saves, shown, gateVars, placeMsg,
                   maintVars, calc>>

\* the stake input of a singles row:
\* setSingleStakes({ ...singleStakes, [l.id]: Math.min(v, cap) })
singleStakeInput(s, legId, val) ==
    /\ inputs < MaxInputs
    /\ inputs' = inputs + 1
    /\ mode[s] = "singles"
    /\ \E l \in Range(selectedLegs(config[s], slip[s])) :
            /\ l.id = legId
            /\ singleStakes' = [singleStakes EXCEPT ![s] =
                    (legId :> Min2(Max2(0, val), singleCap(l))) @@ singleStakes[s]]
    /\ singleStakes'[s] # singleStakes[s]
    /\ UNCHANGED <<storeVars, nextUid, config, bets, slip, mode, multiStake,
                   isAdmin, pendingBets, edits, saves, shown, gateVars, placeMsg,
                   maintVars, calc>>

\* ------------------------------------------------------------------------
\* Placement (App.jsx lines 411-455)

\* a snapshot of every leg whose id is in the slip (a mutant)
legsSnapOfSlip(cfg, sl) ==
    MapSeq(SelectSeq(flatLegs(cfg), LAMBDA l : l.id \in Range(sl)), LAMBDA l :
        [legId |-> l.id, label |-> l.label, marketName |-> l.marketName,
         odds |-> l.odds])

\* legsSnap = selectedLegs.map(l => ({ legId, label, marketName, odds }))
legsSnap(cfg, sl) ==
    MapSeq(selectedLegs(cfg, sl), LAMBDA l :
        [legId |-> l.id, label |-> l.label, marketName |-> l.marketName,
         odds |-> l.odds])

\* betRecord: multiStake is clamp2(multiStake), stakesByLeg is singleStakes
betRecord(s) ==
    IF mode[s] = "multi"
    THEN [userName |-> userName[s], userEmail |-> userEmail[s],
          userKey |-> makeUserKey(userName[s], userEmail[s]),
          legs |-> legsSnap(config[s], slip[s]),
          mode |-> mode[s], multiStake |-> clamp2(multiStake[s], 1)]
    ELSE [userName |-> userName[s], userEmail |-> userEmail[s],
          userKey |-> makeUserKey(userName[s], userEmail[s]),
          legs |-> legsSnap(config[s], slip[s]),
          mode |-> mode[s], stakesByLeg |-> singleStakes[s]]

RECURSIVE PendingCount(_)
PendingCount(S) ==
    IF S = {} THEN 0
    ELSE LET s == CHOOSE s \in S : TRUE
         IN  Len(pendingBets[s]) + PendingCount(S \ {s})

\* createBet calls issued so far: acknowledged or still awaited
BetsIssued == (nextBetId - 1) + PendingCount(Sessions)

\* the Place button is drawn: past the access gate, in a betslip that lists
\* at least one leg (App.jsx lines 479, 964-1071)
PlaceOffered(s) == authed[s] /\ selectedLegs(config[s], slip[s]) # << >>

\* placeBet with its first guard removed (a mutant)
placeBetUngated(s) ==
    /\ selectedLegs(config[s], slip[s]) # << >>
    /\ BetsIssued < MaxBets
    /\ pendingBets' = [pendingBets EXCEPT ![s] = Append(@, betRecord(s))]
    /\ UNCHANGED <<storeVars, nextUid, config, bets, slipVars, isAdmin, edits,
                   inputs, saves, shown, gateVars, placeMsg, maintVars, calc>>

\* placeBet up to await addDoc(collection(db, "bets"), betRecord): the two
\* guards return after their toast.error, before betRecord is built; budget
\* bounds the createBet calls of a behaviour
placeBetWithin(s, budget) ==
    IF ~authed[s] \/ userName[s] = << >>
    THEN /\ placeMsg' = [placeMsg EXCEPT
                ![s] = "Enter access code & your name first"]
         /\ UNCHANGED <<storeVars, nextUid, config, bets, slipVars, isAdmin,
                        pendingBets, edits, inputs, saves, shown, gateVars,
                        maintVars, calc>>
    ELSE IF selectedLegs(config[s], slip[s]) = << >>
    THEN /\ placeMsg' = [placeMsg EXCEPT ![s] = "Add some legs first"]
         /\ UNCHANGED <<storeVars, nextUid, config, bets, slipVars, isAdmin,
                        pendingBets, edits, inputs, saves, shown, gateVars,
                        maintVars, calc>>
    ELSE /\ BetsIssued < budget
         /\ pendingBets' = [pendingBets EXCEPT ![s] = Append(@, betRecord(s))]
         /\ UNCHANGED <<storeVars, nextUid, config, bets, slipVars, isAdmin,
                        edits, inputs, saves, shown, gateVars, placeMsg,
                        maintVars, calc>>

placeBet(s) == placeBetWithin(s, MaxBets)

\* addDocResolves without the clearing of the betslip (a mutant)
addDocResolvesKeepsSlip(s) ==
    /\ pendingBets[s] # << >>
    /\ betsDb' = (nextBetId :> (Head(pendingBets[s]) @@ [placedAt |-> nextBetId]))
                    @@ betsDb
    /\ nextBetId' = nextBetId + 1
    /\ pendingBets' = [pendingBets EXCEPT ![s] = Tail(@)]
    /\ placeMsg' = [placeMsg EXCEPT ![s] = "Bet saved to cloud!"]
    /\ UNCHANGED <<cloud, inbox, nextUid, config, bets, slipVars, isAdmin,
                   edits, inputs, saves, shown, gateVars, maintVars, calc>>

\* an acknowledgement that clears the betslip only when it still holds the
\* selection that was placed (a mutant)
addDocResolvesKeepsLater(s) ==
    /\ pendingBets[s] # << >>
    /\ betsDb' = (nextBetId :> (Head(pendingBets[s]) @@ [placedAt |-> nextBetId]))
                    @@ betsDb
    /\ nextBetId' = nextBetId + 1
    /\ pendingBets' = [pendingBets EXCEPT ![s] = Tail(@)]
    /\ placeMsg' = [placeMsg EXCEPT ![s] = "Bet saved to cloud!"]
    /\ IF legsSnap(config[s], slip[s]) = Head(pendingBets[s]).legs
       THEN /\ slip' = [slip EXCEPT ![s] = << >>]
            /\ singleStakes' = [singleStakes EXCEPT ![s] = << >>]
            /\ multiStake' = [multiStake EXCEPT ![s] = DefaultMultiStake]
       ELSE UNCHANGED <<slip, singleStakes, multiStake>>
    /\ UNCHANGED <<cloud, inbox, nextUid, config, bets, mode, isAdmin, edits,
                   inputs, saves, shown, gateVars, maintVars, calc>>

\* addDoc resolves: the store has created the document, with its id and
\* serverTimestamp(); placeBet reports it and clears the slip
addDocResolves(s) ==
    /\ pendingBets[s] # << >>
    /\ betsDb' = (nextBetId :> (Head(pendingBets[s]) @@ [placedAt |-> nextBetId]))
                    @@ betsDb
    /\ nextBetId' = nextBetId + 1
    /\ pendingBets' = [pendingBets EXCEPT ![s] = Tail(@)]
    /\ placeMsg' = [placeMsg EXCEPT ![s] = "Bet saved to cloud!"]
    /\ slip' = [slip EXCEPT ![s] = << >>]
    /\ singleStakes' = [singleStakes EXCEPT ![s] = << >>]
    /\ multiStake' = [multiStake EXCEPT ![s] = DefaultMultiStake]
    /\ UNCHANGED <<cloud, inbox, nextUid, config, bets, mode, isAdmin, edits,
                   inputs, saves, shown, gateVars, maintVars, calc>>

\* addDocRejects that clears the betslip as a success does (a mutant)
addDocRejectsClearsSlip(s) ==
    /\ pendingBets[s] # << >>
    /\ pendingBets' = [pendingBets EXCEPT ![s] = Tail(@)]
    /\ placeMsg' = [placeMsg EXCEPT ![s] = "Failed to save bet"]
    /\ slip' = [slip EXCEPT ![s] = << >>]
    /\ singleStakes' = [singleStakes EXCEPT ![s] = << >>]
    /\ multiStake' = [multiStake EXCEPT ![s] = DefaultMultiStake]
    /\ UNCHANGED <<storeVars, nextUid, config, bets, mode, isAdmin, edits,
                   inputs, saves, shown, gateVars, maintVars, calc>>

\* a rejected addDoc that placeBet sends again (a mutant)
addDocRejectsRetries(s) ==
    /\ pendingBets[s] # << >>
    /\ pendingBets' = [pendingBets EXCEPT ![s] = Append(Tail(@), Head(@))]
    /\ placeMsg' = [placeMsg EXCEPT ![s] = "Failed to save bet"]
    /\ UNCHANGED <<storeVars, nextUid, config, bets, slipVars, isAdmin, edits,
                   inputs, saves, shown, gateVars, maintVars, calc>>

\* addDoc rejects: the catch reports "Failed to save bet", nothing else
addDocRejects(s) ==
    /\ pendingBets[s] # << >>
    /\ pendingBets' = [pendingBets EXCEPT ![s] = Tail(@)]
    /\ placeMsg' = [placeMsg EXCEPT ![s] = "Failed to save bet"]
    /\ UNCHANGED <<storeVars, nextUid, config, bets, slipVars, isAdmin, edits,
                   inputs, saves, shown, gateVars, maintVars, calc>>

\* ------------------------------------------------------------------------
\* Bets maintenance (App.jsx lines 231-277).  Each handler returns at once
\* when the admin flag is off.

\* deleteBet that skips the check of the admin flag (a mutant)
deleteBetUngated(s, betId) ==
    /\ \E i \in DOMAIN bets[s] : bets[s][i].id = betId
    /\ betId \in DOMAIN betsDb
    /\ betsDb' = [i \in DOMAIN betsDb \ {betId} |-> betsDb[i]]
    /\ UNCHANGED <<cloud, nextBetId, inbox, nextUid, config, bets, slipVars,
                   isAdmin, pendingBets, edits, inputs, saves, shown,
                   gateVars, placeMsg, maintVars, calc>>

\* deleteBet(betId), from the Delete button of a listed bet:
\* if (!isAdmin) return; await deleteDoc(doc(db, "bets", betId))
deleteBet(s, betId) ==
    IF ~isAdmin[s] THEN UNCHANGED vars
    ELSE
    /\ \E i \in DOMAIN bets[s] : bets[s][i].id = betId
    /\ betId \in DOMAIN betsDb
    /\ betsDb' = [i \in DOMAIN betsDb \ {betId} |-> betsDb[i]]
    /\ UNCHANGED <<cloud, nextBetId, inbox, nextUid, config, bets, slipVars,
                   isAdmin, pendingBets, edits, inputs, saves, shown,
                   gateVars, placeMsg, maintVars, calc>>

RemoveAt(sq, i) == SubSeq(sq, 1, i - 1) \o SubSeq(sq, i + 1, Len(sq))

\* the part the two bulk handlers share: if (!isAdmin) return;
\* if (!window.confirm(...)) return; getDocs(collection(db, "bets")) issued
bulkStart(s, ok, op) ==
    IF ~isAdmin[s] \/ ~ok THEN UNCHANGED vars
    ELSE
    /\ Len(maint[s]) < MaxInFlight
    /\ maint' = [maint EXCEPT ![s] = Append(@, [op |-> op, pc |-> "getDocs"])]
    /\ UNCHANGED <<storeVars, nextUid, config, bets, slipVars, isAdmin,
                   pendingBets, edits, inputs, saves, shown, gateVars,
                   placeMsg, archive, calc>>

clearAllBets(s, ok) == bulkStart(s, ok, "clear")

archiveAndClearAllBets(s, ok) == bulkStart(s, ok, "archive")

\* getDocs resolves: snap holds every document of the collection as it is
\* now; the handler builds the batch and issues batch.commit()
getDocsResolves(s, i) ==
    /\ i \in DOMAIN maint[s]
    /\ maint[s][i].pc = "getDocs"
    /\ maint' = [maint EXCEPT ![s][i] =
            [op |-> maint[s][i].op, pc |-> "commit", snap |-> betsDb]]
    /\ UNCHANGED <<storeVars, nextUid, config, bets, slipVars, isAdmin,
                   pendingBets, edits, inputs, saves, shown, gateVars,
                   placeMsg, archive, calc>>

\* a batch that deletes the originals and writes no copy (a mutant)
batchOfDeletesOnly(op, snap) == [deletes |-> DOMAIN snap, sets |-> << >>]

\* the batch the handler builds from snap: batch.delete(d.ref) for each
\* document and, when archiving, batch.set(doc(db, "bets_archive", d.id),
\* d.data())
batchOf(op, snap) ==
    [deletes |-> DOMAIN snap,
     sets |-> IF op = "archive" THEN snap ELSE << >>]

\* batch.commit() resolves: the store applies every write of the batch at
\* once
batchCommits(s, i) ==
    /\ i \in DOMAIN maint[s]
    /\ maint[s][i].pc = "commit"
    /\ LET batch == batchOf(maint[s][i].op, maint[s][i].snap)
       IN  /\ betsDb' = [id \in DOMAIN betsDb \ batch.deletes |-> betsDb[id]]
           /\ archive' = batch.sets @@ archive
    /\ maint' = [maint EXCEPT ![s] = RemoveAt(@, i)]
    /\ UNCHANGED <<cloud, nextBetId, inbox, nextUid, config, bets, slipVars,
                   isAdmin, pendingBets, edits, inputs, saves, shown,
                   gateVars, placeMsg, calc>>

\* getDocs or batch.commit() rejects: the catch reports the failure, the
\* store has applied nothing
bulkRejects(s, i) ==
    /\ i \in DOMAIN maint[s]
    /\ maint' = [maint EXCEPT ![s] = RemoveAt(@, i)]
    /\ UNCHANGED <<storeVars, nextUid, config, bets, slipVars, isAdmin,
                   pendingBets, edits, inputs, saves, shown, gateVars,
                   placeMsg, archive, calc>>

\* ------------------------------------------------------------------------
\* Rendering of settlements (App.jsx lines 821, 1118-1119, 1142; My Bets
\* lines 950, 1075-1085)

\* a field of a stored bet, the empty string when the record lacks it
fieldOr(b, f) == IF f \in DOMAIN b THEN b[f] ELSE << >>

\* myBets: bets.filter(b =>
\*   (b.userKey || makeUserKey(b.userName, b.userEmail)) === userKey)
myBets(s) ==
    SelectSeq(bets[s], LAMBDA b :
        (IF fieldOr(b, "userKey") # << >> THEN b.userKey
         ELSE makeUserKey(fieldOr(b, "userName"), fieldOr(b, "userEmail")))
            = makeUserKey(userName[s], userEmail[s]))

\* the bets a render settles: the admin panel lists every bet of the stream;
\* My Bets, drawn with a non-empty betslip, lists the session's own
settledBets(s) ==
    IF isAdmin[s] THEN bets[s]
    ELSE IF selectedLegs(config[s], slip[s]) # << >>
         THEN myBets(s)
         ELSE << >>

rendered(s) ==
    MapSeq(settledBets(s), LAMBDA b :
        [id |-> b.id, status |-> settleBet(config[s], b).status,
         potentialPayout |-> settleBet(config[s], b).potentialPayout])

\* a render: const s = settleBet(b) for each listed bet
render(s) ==
    /\ shown[s] # rendered(s)
    /\ shown' = [shown EXCEPT ![s] = rendered(s)]
    /\ UNCHANGED <<storeVars, nextUid, config, bets, slipVars, isAdmin,
                   pendingBets, edits, inputs, saves, gateVars, placeMsg,
                   maintVars, calc>>

\* ------------------------------------------------------------------------
\* The program

Next ==
    \/ \E s \in Sessions : configSnapshot(s)
    \/ \E s \in Players : betsSnapshotDelivered(s)
    \/ \E s \in Players : unlockAdmin(s)
    \/ \E s \in Players : turnOffAdmin(s)
    \/ \E s \in Sessions : addMarket(s)
    \/ \E s \in Sessions : \E m \in MarketIdsOf(config[s]) : removeMarket(s, m)
    \/ \E s \in Sessions : \E m \in MarketIdsOf(config[s]) :
            \E p \in MarketPatches : updateMarket(s, m, p)
    \/ \E s \in Sessions : \E m \in MarketIdsOf(config[s]) : addLeg(s, m)
    \/ \E s \in Sessions : \E m \in MarketIdsOf(config[s]) :
            \E l \in LegIdsOf(config[s]) : removeLeg(s, m, l)
    \/ \E s \in Sessions : \E m \in MarketIdsOf(config[s]) :
            \E l \in LegIdsOf(config[s]) : \E p \in LegPatches :
                updateLeg(s, m, l, p)
    \/ \E s \in Sessions : forceSave(s)
    \/ \E s \in Players : \E l \in LegIdsOf(config[s]) : onToggleSelect(s, l)
    \/ \E s \in Players : \E l \in LegIdsOf(config[s]) : onRemove(s, l)
    \/ \E s \in Players : \E m \in Modes : setMode(s, m)
    \/ \E s \in Players : \E v \in StakeInputs : multiStakeInput(s, v)
    \/ \E s \in Players : \E l \in LegIdsOf(config[s]) :
            \E v \in StakeInputs : singleStakeInput(s, l, v)
    \/ \E s \in Players : PlaceOffered(s) /\ placeBet(s)
    \/ \E s \in Players : addDocResolves(s)
    \/ \E s \in Players : addDocRejects(s)
    \/ \E s \in Players : \E b \in DOMAIN betsDb : deleteBet(s, b)

Spec == Init /\ [][Next]_vars

\* ------------------------------------------------------------------------
\* Placement and settlement from a filled betslip: the behaviours that start
\* when a player has made the selections and typed the stakes, in a catalog
\* whose legs have any results, and in which the player session also holds
\* the admin tools.

CatalogWithResults(r3, r4) ==
    [InitialCatalog EXCEPT !.markets[1].legs[1].result = r3,
                           !.markets[2].legs[1].result = r4]

SlipChoices == {<<3>>, <<4>>, <<3, 4>>}

\* the stakes the stake inputs leave in a betslip with selection sl
EnteredMultiStakes(sl) ==
    {DefaultMultiStake} \cup
    { Min2(v, multiCap(InitialCatalog, sl)) : v \in StakeInputs }

EnteredSingleStakes(sl) ==
    UNION { [D -> StakeInputs] : D \in SUBSET Range(sl) }

CappedAtEntry(stakes) ==
    [id \in DOMAIN stakes |->
        Min2(stakes[id],
             singleCap(CHOOSE l \in Range(flatLegs(InitialCatalog)) : l.id = id))]

InitSettle ==
    /\ \E r3 \in Results, r4 \in Results :
            /\ cloud = CatalogWithResults(r3, r4)
            /\ config = [s \in Sessions |-> CatalogWithResults(r3, r4)]
    /\ betsDb = << >>
    /\ nextBetId = 1
    /\ inbox = [s \in Sessions |-> << >>]
    /\ nextUid = 5
    /\ bets = [s \in Sessions |-> << >>]
    /\ \E sl \in SlipChoices :
            /\ slip = [s \in Sessions |-> IF s \in Players THEN sl ELSE << >>]
            /\ \/ /\ mode = [s \in Sessions |-> "multi"]
                  /\ \E st \in EnteredMultiStakes(sl) :
                        multiStake = [s \in Sessions |->
                            IF s \in Players THEN st ELSE DefaultMultiStake]
                  /\ singleStakes = [s \in Sessions |-> << >>]
               \/ /\ mode = [s \in Sessions |->
                            IF s \in Players THEN "singles" ELSE "multi"]
                  /\ multiStake = [s \in Sessions |-> DefaultMultiStake]
                  /\ \E st \in EnteredSingleStakes(sl) :
                        singleStakes = [s \in Sessions |->
                            IF s \in Players THEN CappedAtEntry(st) ELSE << >>]
    /\ isAdmin = [s \in Sessions |-> s \notin Players]
    /\ pendingBets = [s \in Sessions |-> << >>]
    /\ edits = 0
    /\ inputs = 0
    /\ saves = 0
    /\ shown = [s \in Sessions |-> << >>]
    /\ authed = [s \in Sessions |-> TRUE]
    /\ userName = [s \in Sessions |-> NameOf(s)]
    /\ userEmail = [s \in Sessions |-> << >>]
    /\ placeMsg = [s \in Sessions |-> ""]
    /\ archive = << >>
    /\ maint = [s \in Sessions |-> << >>]
    /\ calc = NoCalc

NextSettle ==
    \/ \E s \in Players : PlaceOffered(s) /\ placeBet(s)
    \/ \E s \in Players : addDocResolves(s)
    \/ \E s \in Players : addDocRejects(s)
    \/ \E s \in Players : betsSnapshotDelivered(s)
    \/ \E s \in Players : unlockAdmin(s)
    \/ \E s \in Players : turnOffAdmin(s)
    \/ \E s \in Players : addMarket(s)
    \/ \E s \in Players : \E m \in MarketIdsOf(config[s]) : removeMarket(s, m)
    \/ \E s \in Players : \E m \in MarketIdsOf(config[s]) :
            \E p \in MarketPatches : updateMarket(s, m, p)
    \/ \E s \in Players : \E m \in MarketIdsOf(config[s]) : addLeg(s, m)
    \/ \E s \in Players : \E m \in MarketIdsOf(config[s]) :
            \E l \in LegIdsOf(config[s]) : removeLeg(s, m, l)
    \/ \E s \in Players : \E m \in MarketIdsOf(config[s]) :
            \E l \in LegIdsOf(config[s]) : \E p \in LegPatches :
                updateLeg(s, m, l, p)
    \/ \E s \in Players : \E b \in DOMAIN betsDb : deleteBet(s, b)
    \/ \E s \in Players : resetAllLegs(s)
    \/ \E s \in Players : resetAllLegsToPending(s)
    \/ \E s \in Players : render(s)

SpecSettle == InitSettle /\ [][NextSettle]_vars

\* ------------------------------------------------------------------------
\* Placement in one session that starts before the access gate.  placeBet is
\* called in every state, also where the view draws no Place button: its
\* guards are exercised as the function has them.

InitPlace ==
    /\ cloud = InitialCatalog
    /\ betsDb = << >>
    /\ nextBetId = 1
    /\ inbox = [s \in Sessions |-> << >>]
    /\ nextUid = 5
    /\ config = [s \in Sessions |-> InitialCatalog]
    /\ bets = [s \in Sessions |-> << >>]
    /\ slip = [s \in Sessions |-> << >>]
    /\ mode = [s \in Sessions |-> "multi"]
    /\ multiStake = [s \in Sessions |-> DefaultMultiStake]
    /\ singleStakes = [s \in Sessions |-> << >>]
    /\ isAdmin = [s \in Sessions |-> s \notin Players]
    /\ pendingBets = [s \in Sessions |-> << >>]
    /\ edits = 0
    /\ inputs = 0
    /\ saves = 0
    /\ shown = [s \in Sessions |-> << >>]
    /\ authed = [s \in Sessions |-> s \notin Players]
    /\ userName = [s \in Sessions |->
            IF s \in Players THEN << >> ELSE NameOf(s)]
    /\ userEmail = [s \in Sessions |-> << >>]
    /\ placeMsg = [s \in Sessions |-> ""]
    /\ archive = << >>
    /\ maint = [s \in Sessions |-> << >>]
    /\ calc = NoCalc

NextPlace ==
    \/ \E s \in Players : \E n \in Names(s) : setUserName(s, n)
    \/ \E s \in Players : enterAccess(s)
    \/ \E s \in Players : logOut(s)
    \/ \E s \in Players : authed[s] /\ unlockAdmin(s)
    \/ \E s \in Players : authed[s] /\ turnOffAdmin(s)
    \/ \E s \in Players : \E m \in MarketIdsOf(config[s]) :
            \E p \in MarketPatches : authed[s] /\ updateMarket(s, m, p)
    \/ \E s \in Players : \E m \in MarketIdsOf(config[s]) :
            \E l \in LegIdsOf(config[s]) : \E p \in LegPatches :
                authed[s] /\ updateLeg(s, m, l, p)
    \/ \E s \in Players : \E l \in LegIdsOf(config[s]) :
            authed[s] /\ onToggleSelect(s, l)
    \/ \E s \in Players : \E l \in LegIdsOf(config[s]) :
            authed[s] /\ onRemove(s, l)
    \/ \E s \in Players : \E m \in Modes : authed[s] /\ setMode(s, m)
    \/ \E s \in Players : \E v \in StakeInputs :
            authed[s] /\ multiStakeInput(s, v)
    \/ \E s \in Players : \E l \in LegIdsOf(config[s]) :
            \E v \in StakeInputs : authed[s] /\ singleStakeInput(s, l, v)
    \/ \E s \in Players : placeBet(s)
    \/ \E s \in Players : addDocResolves(s)
    \/ \E s \in Players : addDocRejects(s)
    \/ \E s \in Players : authed[s] /\ betsSnapshotDelivered(s)

SpecPlace == InitPlace /\ [][NextPlace]_vars

\* ------------------------------------------------------------------------
\* Identity: the store holds a bet placed earlier under some name and email,
\* by placeBet or by a version that stored no userKey; a player who has a
\* leg in the slip types a name and an email at the gate, enters, places,
\* and is shown My Bets.

KeyNames == { <<"A", "l">>, <<" ", "a", "L", " ">>, <<"B", "o">> }
KeyEmails == { << >>, <<"a", "@", "X">>, <<" ", "A", "@", "x">> }

EarlierBet(name, email, keyed) ==
    LET legs == << [legId |-> 3, label |-> "Sydney Win",
                    marketName |-> "Match Result", odds |-> 200] >>
    IN  IF keyed
        THEN [userName |-> name, userEmail |-> email,
              userKey |-> makeUserKey(name, email), legs |-> legs,
              mode |-> "multi", multiStake |-> DefaultMultiStake,
              placedAt |-> 1]
        ELSE [userName |-> name, userEmail |-> email, legs |-> legs,
              mode |-> "multi", multiStake |-> DefaultMultiStake,
              placedAt |-> 1]

InitKey ==
    /\ cloud = InitialCatalog
    /\ \E n \in KeyNames, e \in KeyEmails, keyed \in BOOLEAN :
            betsDb = (1 :> EarlierBet(n, e, keyed))
    /\ nextBetId = 2
    /\ inbox = [s \in Sessions |-> << >>]
    /\ nextUid = 5
    /\ config = [s \in Sessions |-> InitialCatalog]
    /\ bets = [s \in Sessions |-> << >>]
    /\ slip = [s \in Sessions |-> IF s \in Players THEN <<3>> ELSE << >>]
    /\ mode = [s \in Sessions |-> "multi"]
    /\ multiStake = [s \in Sessions |-> DefaultMultiStake]
    /\ singleStakes = [s \in Sessions |-> << >>]
    /\ isAdmin = [s \in Sessions |-> s \notin Players]
    /\ pendingBets = [s \in Sessions |-> << >>]
    /\ edits = 0
    /\ inputs = 0
    /\ saves = 0
    /\ shown = [s \in Sessions |-> << >>]
    /\ authed = [s \in Sessions |-> s \notin Players]
    /\ userName = [s \in Sessions |->
            IF s \in Players THEN << >> ELSE NameOf(s)]
    /\ userEmail = [s \in Sessions |-> << >>]
    /\ placeMsg = [s \in Sessions |-> ""]
    /\ archive = << >>
    /\ maint = [s \in Sessions |-> << >>]
    /\ calc = NoCalc

NextKey ==
    \/ \E s \in Players : \E n \in KeyNames \cup {<< >>, <<" ">>} :
            setUserName(s, n)
    \/ \E s \in Players : \E e \in KeyEmails : setUserEmail(s, e)
    \/ \E s \in Players : enterAccess(s)
    \/ \E s \in Players : logOut(s)
    \/ \E s \in Players : authed[s] /\ betsSnapshotDelivered(s)
    \/ \E s \in Players : PlaceOffered(s) /\ placeBetWithin(s, MaxBetsTwice)
    \/ \E s \in Players : addDocResolves(s)
    \/ \E s \in Players : addDocRejects(s)
    \/ \E s \in Players : authed[s] /\ render(s)

SpecKey == InitKey /\ [][NextKey]_vars

\* ------------------------------------------------------------------------
\* Two admin consoles.  Each starts with a working copy that is the stored
\* catalog or has one edit not saved yet; the first also holds a betslip.

Titles == {"Demo Match", "Grand Final"}

LocalCopies ==
    { InitialCatalog,
      [InitialCatalog EXCEPT !.markets[1].legs[1].odds = 150],
      [InitialCatalog EXCEPT !.markets[2].legs[1].result = "won"] }

InitSave ==
    /\ cloud = InitialCatalog
    /\ betsDb = << >>
    /\ nextBetId = 1
    /\ inbox = [s \in Sessions |-> << >>]
    /\ nextUid = 5
    /\ config \in [Sessions -> LocalCopies]
    /\ bets = [s \in Sessions |-> << >>]
    /\ slip = [s \in Sessions |-> IF s \in Players THEN <<3, 4>> ELSE << >>]
    /\ mode = [s \in Sessions |-> IF s \in Players THEN "singles" ELSE "multi"]
    /\ multiStake = [s \in Sessions |-> DefaultMultiStake]
    /\ singleStakes = [s \in Sessions |->
            IF s \in Players THEN (3 :> 6000) ELSE << >>]
    /\ isAdmin = [s \in Sessions |-> TRUE]
    /\ pendingBets = [s \in Sessions |-> << >>]
    /\ edits = 0
    /\ inputs = 0
    /\ saves = 0
    /\ shown = [s \in Sessions |-> << >>]
    /\ authed = [s \in Sessions |-> TRUE]
    /\ userName = [s \in Sessions |-> NameOf(s)]
    /\ userEmail = [s \in Sessions |-> << >>]
    /\ placeMsg = [s \in Sessions |-> ""]
    /\ archive = << >>
    /\ maint = [s \in Sessions |-> << >>]
    /\ calc = NoCalc

NextSave ==
    \/ \E s \in Sessions : configSnapshot(s)
    \/ \E s \in Sessions : forceSave(s)
    \/ \E s \in Sessions : \E t \in Titles : setEventTitle(s, t)
    \/ \E s \in Sessions : addMarket(s)
    \/ \E s \in Sessions : \E m \in MarketIdsOf(config[s]) : removeMarket(s, m)
    \/ \E s \in Sessions : \E m \in MarketIdsOf(config[s]) :
            \E p \in MarketPatches : updateMarket(s, m, p)
    \/ \E s \in Sessions : \E m \in MarketIdsOf(config[s]) : addLeg(s, m)
    \/ \E s \in Sessions : \E m \in MarketIdsOf(config[s]) :
            \E l \in LegIdsOf(config[s]) : removeLeg(s, m, l)
    \/ \E s \in Sessions : \E m \in MarketIdsOf(config[s]) :
            \E l \in LegIdsOf(config[s]) : \E p \in LegPatches :
                updateLeg(s, m, l, p)
    \/ \E s \in Sessions : resetAllLegs(s)

SpecSave == InitSave /\ [][NextSave]_vars

\* ------------------------------------------------------------------------
\* Bet maintenance: a player with one leg selected presses Place, up to
\* twice before the first acknowledgement clears the slip, and both sessions
\* call the maintenance handlers, in every state, also where the view draws
\* no button for them.

InitMaint ==
    /\ cloud = InitialCatalog
    /\ betsDb = << >>
    /\ nextBetId = 1
    /\ inbox = [s \in Sessions |-> << >>]
    /\ nextUid = 5
    /\ config = [s \in Sessions |-> InitialCatalog]
    /\ bets = [s \in Sessions |-> << >>]
    /\ slip = [s \in Sessions |-> IF s \in Players THEN <<3>> ELSE << >>]
    /\ mode = [s \in Sessions |-> "multi"]
    /\ multiStake = [s \in Sessions |-> DefaultMultiStake]
    /\ singleStakes = [s \in Sessions |-> << >>]
    /\ isAdmin = [s \in Sessions |-> s \notin Players]
    /\ pendingBets = [s \in Sessions |-> << >>]
    /\ edits = 0
    /\ inputs = 0
    /\ saves = 0
    /\ shown = [s \in Sessions |-> << >>]
    /\ authed = [s \in Sessions |-> TRUE]
    /\ userName = [s \in Sessions |-> NameOf(s)]
    /\ userEmail = [s \in Sessions |-> << >>]
    /\ placeMsg = [s \in Sessions |-> ""]
    /\ archive = << >>
    /\ maint = [s \in Sessions |-> << >>]
    /\ calc = NoCalc

NextMaint ==
    \/ \E s \in Players : PlaceOffered(s) /\ placeBetWithin(s, MaxBetsTwice)
    \/ \E s \in Players : addDocResolves(s)
    \/ \E s \in Players : addDocRejects(s)
    \/ \E s \in Sessions : unlockAdmin(s)
    \/ \E s \in Sessions : turnOffAdmin(s)
    \/ \E s \in Sessions : betsSnapshotDelivered(s)
    \/ \E s \in Sessions : \E b \in DOMAIN betsDb : deleteBet(s, b)
    \/ \E s \in Sessions : \E ok \in BOOLEAN : clearAllBets(s, ok)
    \/ \E s \in Sessions : \E ok \in BOOLEAN : archiveAndClearAllBets(s, ok)
    \/ \E s \in Sessions : \E i \in DOMAIN maint[s] : getDocsResolves(s, i)
    \/ \E s \in Sessions : \E i \in DOMAIN maint[s] : batchCommits(s, i)
    \/ \E s \in Sessions : \E i \in DOMAIN maint[s] : bulkRejects(s, i)

SpecMaint == InitMaint /\ [][NextMaint]_vars

\* ------------------------------------------------------------------------
\* The numeric utilities on their own: an odds value is drawn, the stake cap
\* is derived from it, and the payout of a stake at or one cent above the
\* cap is computed; or a list of odds is drawn and combined.

programVars == <<cloud, betsDb, nextBetId, inbox, nextUid, config, bets, slip,
                 mode, multiStake, singleStakes, isAdmin, pendingBets, edits,
                 inputs, saves, shown, authed, userName, userEmail, placeMsg,
                 archive,
                 maint>>

InitNum ==
    /\ cloud = InitialCatalog
    /\ betsDb = << >>
    /\ nextBetId = 1
    /\ inbox = [s \in Sessions |-> << >>]
    /\ nextUid = 5
    /\ config = [s \in Sessions |-> InitialCatalog]
    /\ bets = [s \in Sessions |-> << >>]
    /\ slip = [s \in Sessions |-> << >>]
    /\ mode = [s \in Sessions |-> "multi"]
    /\ multiStake = [s \in Sessions |-> DefaultMultiStake]
    /\ singleStakes = [s \in Sessions |-> << >>]
    /\ isAdmin = [s \in Sessions |-> s \notin Players]
    /\ pendingBets = [s \in Sessions |-> << >>]
    /\ edits = 0
    /\ inputs = 0
    /\ saves = 0
    /\ shown = [s \in Sessions |-> << >>]
    /\ authed = [s \in Sessions |-> TRUE]
    /\ userName = [s \in Sessions |-> NameOf(s)]
    /\ userEmail = [s \in Sessions |-> << >>]
    /\ placeMsg = [s \in Sessions |-> ""]
    /\ archive = << >>
    /\ maint = [s \in Sessions |-> << >>]
    /\ \/ \E o \in 0..OddsMax : calc = [pc |-> "odds", odds |-> o]
       \/ \E l \in OddsLists : calc = [pc |-> "list", list |-> l]

\* cap = stakeCapForOdds(odds)
deriveCap ==
    /\ calc.pc = "odds"
    /\ calc' = [pc |-> "cap", odds |-> calc.odds,
                cap |-> stakeCapForOdds(calc.odds)]
    /\ UNCHANGED programVars

\* payoutFrom(stake, odds) for the stake at the cap or extra cents above it;
\* product is the unrounded stake * (odds || 1), in units of 1/10000
computePayout(extra) ==
    /\ calc.pc = "cap"
    /\ calc' = [pc |-> "paid", odds |-> calc.odds, cap |-> calc.cap,
                stake |-> calc.cap + extra,
                product |-> (calc.cap + extra) *
                            (IF calc.odds = 0 THEN 100 ELSE calc.odds),
                payout |-> payoutFrom(calc.cap + extra, calc.odds)]
    /\ UNCHANGED programVars

\* total = multiplyOdds(list)
combineOdds ==
    /\ calc.pc = "list"
    /\ calc' = [pc |-> "combined", list |-> calc.list,
                total |-> multiplyOdds(calc.list)]
    /\ UNCHANGED programVars

NextNum ==
    \/ deriveCap
    \/ combineOdds
    \/ \E extra \in {0, 1} : computePayout(extra)

SpecNum == InitNum /\ [][NextNum]_vars

\* ------------------------------------------------------------------------
\* Vocabulary of the properties

\* the results the catalog records for a leg id (at most one: ids are unique)
ResultsRecorded(cfg, legId) ==
    { l.result : l \in { ll \in Range(flatLegs(cfg)) : ll.id = legId } }

\* the current result of a leg: pending when the catalog has no such leg
CurrentResult(cfg, legId) ==
    IF ResultsRecorded(cfg, legId) = {} THEN "pending"
    ELSE CHOOSE r \in ResultsRecorded(cfg, legId) : TRUE

\* the bets a session holds, as a set
BetsOf(s) == Range(bets[s])

\* the results of the legs of bet b at positions P, in catalog cfg
ResultsAt(cfg, b, P) == { CurrentResult(cfg, b.legs[i].legId) : i \in P }

\* the positions of the legs of a singles bet that carry a positive stake
Participating(b) ==
    { i \in DOMAIN b.legs :
        /\ b.legs[i].legId \in DOMAIN b.stakesByLeg
        /\ b.stakesByLeg[b.legs[i].legId] > 0 }

RECURSIVE SumOver(_, _)
SumOver(P, f) ==
    IF P = {} THEN 0
    ELSE LET i == CHOOSE i \in P : TRUE IN f[i] + SumOver(P \ {i}, f)

\* ------------------------------------------------------------------------
\* C1: every multi bet the store holds pays at most MAX_PAYOUT: the payout
\* of its recorded stake at the combined odds of its legs does not exceed
\* 200.00.
C1_MultiBetWithinMaxPayout ==
    \A id \in DOMAIN betsDb :
        betsDb[id].mode = "multi" =>
            payoutFrom(betsDb[id].multiStake,
                       multiplyOdds(OddsOf(betsDb[id].legs))) <= MAX_PAYOUT

\* C2: in every singles bet the store holds, each leg with a positive stake
\* pays at most MAX_PAYOUT at its snapshotted odds.
C2_SinglesBetWithinMaxPayout ==
    \A id \in DOMAIN betsDb :
        betsDb[id].mode = "singles" =>
            \A i \in Participating(betsDb[id]) :
                payoutFrom(betsDb[id].stakesByLeg[betsDb[id].legs[i].legId],
                           betsDb[id].legs[i].odds) <= MAX_PAYOUT

\* C3: a multi bet settles as Lost when any of its legs is currently lost,
\* else as Won when all of its legs are won, else as Pending.
C3_MultiStatus ==
    \A s \in Sessions : \A b \in BetsOf(s) :
        b.mode = "multi" =>
            LET rs == ResultsAt(config[s], b, DOMAIN b.legs)
            IN  settleBet(config[s], b).status =
                    IF "lost" \in rs THEN "Lost"
                    ELSE IF rs \subseteq {"won"} THEN "Won"
                    ELSE "Pending"

\* a multi bet of several legs, one lost and another won, settled as Lost
C3_LossDominates ==
    \E s \in Sessions : \E b \in BetsOf(s) :
        /\ b.mode = "multi"
        /\ {"lost", "won"} \subseteq ResultsAt(config[s], b, DOMAIN b.legs)
        /\ settleBet(config[s], b).status = "Lost"

\* C4: a singles bet settles over its legs with a positive stake only:
\* Pending if one of them is pending, else Mixed if they hold a lost and a
\* won leg, else Lost if one is lost, else Won if one is won, else Pending.
C4_SinglesStatus ==
    \A s \in Sessions : \A b \in BetsOf(s) :
        b.mode = "singles" =>
            LET rs == ResultsAt(config[s], b, Participating(b))
            IN  settleBet(config[s], b).status =
                    IF "pending" \in rs THEN "Pending"
                    ELSE IF {"lost", "won"} \subseteq rs THEN "Mixed"
                    ELSE IF "lost" \in rs THEN "Lost"
                    ELSE IF "won" \in rs THEN "Won"
                    ELSE "Pending"

\* a singles bet settled as Won although a leg of it is lost: that leg has a
\* zero or missing stake
C4_UnstakedLegIgnored ==
    \E s \in Sessions : \E b \in BetsOf(s) :
        /\ b.mode = "singles"
        /\ settleBet(config[s], b).status = "Won"
        /\ \E i \in DOMAIN b.legs \ Participating(b) :
                CurrentResult(config[s], b.legs[i].legId) = "lost"

\* C5: the payout of a stake at the cap never exceeds MAX_PAYOUT.
C5_CapNeverBreached ==
    (calc.pc = "paid" /\ calc.stake = calc.cap) => calc.payout <= MAX_PAYOUT

\* the cap of odds 3.00 is 66.66 and pays 199.98
C5_CapAtThree ==
    /\ calc.pc = "paid"
    /\ calc.odds = 300
    /\ calc.stake = calc.cap
    /\ calc.cap = 6666
    /\ calc.payout = 19998

\* C6 as stated: one cent above the cap pays strictly more than MAX_PAYOUT.
C6_OneCentMoreExceeds ==
    (calc.pc = "paid" /\ calc.stake = calc.cap + 1) => calc.payout > MAX_PAYOUT

\* C6 as amended: for odds above 1.00, one cent above the cap makes the
\* unrounded product of stake and odds exceed MAX_PAYOUT, so the rounded
\* payout is at least MAX_PAYOUT; for odds of at most 1.00 the cap is 199.99
\* and one cent more pays at most MAX_PAYOUT.
C6_CapTightBeforeRounding ==
    (calc.pc = "paid" /\ calc.stake = calc.cap + 1) =>
        IF calc.odds > GuardOdds
        THEN calc.product > MAX_PAYOUT * 100 /\ calc.payout >= MAX_PAYOUT
        ELSE calc.cap = MAX_PAYOUT - 1 /\ calc.payout <= MAX_PAYOUT

\* at odds 1.01 one cent above the cap, 198.02, pays exactly 200.00
C6_RoundsBackToMax ==
    /\ calc.pc = "paid"
    /\ calc.odds = 101
    /\ calc.stake = calc.cap + 1
    /\ calc.product > MAX_PAYOUT * 100
    /\ calc.payout = MAX_PAYOUT

\* ------------------------------------------------------------------------
\* C7: odds are frozen at placement. In every step, a record of the store
\* that survives the step is unchanged, the potential payout of every bet a
\* session holds is the same in the catalog after the step as in the catalog
\* before it, and every bet a session comes to hold is the store's record.
C7_Step ==
    /\ \A id \in (DOMAIN betsDb) \cap (DOMAIN betsDb') :
            betsDb'[id] = betsDb[id]
    /\ \A s \in Sessions : \A b \in BetsOf(s) :
            settleBet(config'[s], b).potentialPayout =
                settleBet(config[s], b).potentialPayout
    /\ \A s \in Sessions : \A b \in Range(bets'[s]) :
            \/ b \in BetsOf(s)
            \/ /\ b.id \in DOMAIN betsDb
               /\ DOMAIN b = (DOMAIN betsDb[b.id]) \cup {"id"}
               /\ \A f \in DOMAIN betsDb[b.id] : b[f] = betsDb[b.id][f]

C7_OddsFrozen == [][C7_Step]_vars

\* a session holds a bet with a leg whose odds in the session's catalog are
\* no longer the odds the bet recorded
C7_OddsEditedAfterPlacement ==
    \E s \in Sessions : \E b \in BetsOf(s) : \E i \in DOMAIN b.legs :
        /\ b.id \in DOMAIN betsDb
        /\ betsDb[b.id].legs = b.legs
        /\ \E l \in Range(flatLegs(config[s])) :
                l.id = b.legs[i].legId /\ l.odds # b.legs[i].odds

\* C8: a bet leg whose id the catalog no longer holds settles as pending:
\* settleBet still yields a status and a payout, a multi bet with such a leg
\* is never Won, and it is Lost only if another of its legs is lost.
C8_LookupMissIsPending ==
    \A s \in Sessions : \A b \in BetsOf(s) : \A i \in DOMAIN b.legs :
        ResultsRecorded(config[s], b.legs[i].legId) = {} =>
            /\ legResult(config[s], b.legs[i].legId) = "pending"
            /\ settleBet(config[s], b).status \in
                    {"Pending", "Won", "Lost", "Mixed"}
            /\ settleBet(config[s], b).potentialPayout \in Nat
            /\ b.mode = "multi" =>
                    /\ settleBet(config[s], b).status # "Won"
                    /\ settleBet(config[s], b).status = "Lost" =>
                            \E j \in DOMAIN b.legs \ {i} :
                                CurrentResult(config[s], b.legs[j].legId)
                                    = "lost"

\* a multi bet one leg of which was deleted and every other leg of which is
\* won, settled as Pending
C8_DeletedLegHoldsBetPending ==
    \E s \in Sessions : \E b \in BetsOf(s) : \E i \in DOMAIN b.legs :
        /\ b.mode = "multi"
        /\ Len(b.legs) > 1
        /\ ResultsRecorded(config[s], b.legs[i].legId) = {}
        /\ \A j \in DOMAIN b.legs \ {i} :
                ResultsRecorded(config[s], b.legs[j].legId) = {"won"}
        /\ settleBet(config[s], b).status = "Pending"

\* C9: settlement depends on the bet and the current results of its legs
\* only, and has no effect: in every step that leaves the results of a bet's
\* legs as they were, the bet's settlement is as it was, and a step that
\* draws settlements changes neither the catalogs, the bets nor the betslip.
C9_Step ==
    /\ \A s \in Sessions : \A b \in BetsOf(s) :
            (\A i \in DOMAIN b.legs :
                CurrentResult(config'[s], b.legs[i].legId) =
                    CurrentResult(config[s], b.legs[i].legId))
            => settleBet(config'[s], b) = settleBet(config[s], b)
    /\ shown' # shown =>
            UNCHANGED <<cloud, config, betsDb, bets, slip, mode, multiStake,
                        singleStakes>>

C9_SettlementPure == [][C9_Step]_vars

\* a session has drawn the settlement of a bet on leg 3 alone after the
\* result of leg 4, which the bet does not reference, was changed
C9_UnreferencedResultChanged ==
    \E s \in Sessions : \E b \in BetsOf(s) :
        /\ \A i \in DOMAIN b.legs : b.legs[i].legId = 3
        /\ CurrentResult(config[s], 4) # CurrentResult(cloud, 4)
        /\ ResultsRecorded(config[s], 4) # {}
        /\ shown[s] # << >>
        /\ shown[s] = rendered(s)

\* C10: the potential payout of a multi bet is the payout of its stake at
\* the combined odds of all its legs, and that of a singles bet is the sum,
\* over its legs with a positive stake, of the payout of the stake at the
\* leg's odds, the odds being those the bet recorded; it is the same under
\* every assignment of results; and a multi bet of 10.00 on legs at 2.00 and
\* 3.00, both won, is Won at combined odds 6.00 with a payout of 60.00.
C10_PotentialPayout ==
    \A s \in Sessions : \A b \in BetsOf(s) :
        /\ settleBet(config[s], b).potentialPayout =
                IF b.mode = "multi"
                THEN payoutFrom(b.multiStake, multiplyOdds(OddsOf(b.legs)))
                ELSE SumOver(Participating(b),
                        [i \in DOMAIN b.legs |->
                            IF i \in Participating(b)
                            THEN payoutFrom(b.stakesByLeg[b.legs[i].legId],
                                            b.legs[i].odds)
                            ELSE 0])
        /\ \A r3 \in Results, r4 \in Results :
                settleBet(CatalogWithResults(r3, r4), b).potentialPayout =
                    settleBet(config[s], b).potentialPayout
        /\ ( /\ b.mode = "multi"
             /\ OddsOf(b.legs) = <<200, 300>>
             /\ b.multiStake = 1000
             /\ ResultsAt(config[s], b, DOMAIN b.legs) = {"won"} )
           => /\ settleBet(config[s], b).status = "Won"
              /\ multiplyOdds(OddsOf(b.legs)) = 600
              /\ settleBet(config[s], b).potentialPayout = 6000

\* the multi bet of 10.00 on legs at 2.00 and 3.00, both won
C10_TenOnTwoAndThree ==
    \E s \in Sessions : \E b \in BetsOf(s) :
        /\ b.mode = "multi"
        /\ OddsOf(b.legs) = <<200, 300>>
        /\ b.multiStake = 1000
        /\ ResultsAt(config[s], b, DOMAIN b.legs) = {"won"}
        /\ settleBet(config[s], b) = [status |-> "Won", potentialPayout |-> 6000]

\* ------------------------------------------------------------------------
\* the catalog legs a session has selected and may bet on, as a set
AvailableSelected(s) ==
    { l \in Range(flatLegs(config[s])) :
        l.id \in Range(slip[s]) /\ l.active /\ l.marketActive }

RejectionMessages ==
    {"Enter access code & your name first", "Add some legs first"}

\* C11: placeBet issues a createBet only in a session that is authorized,
\* has a bettor name and has an available leg selected; a step in which it
\* raises one of its two rejection messages issues none, creates no bet and
\* leaves the betslip (selection, mode, multi stake, singles stakes) as it
\* was.
C11_Step ==
    \A s \in Sessions :
        /\ Len(pendingBets'[s]) > Len(pendingBets[s]) =>
                /\ authed[s]
                /\ userName[s] # << >>
                /\ AvailableSelected(s) # {}
        /\ (placeMsg'[s] # placeMsg[s] /\ placeMsg'[s] \in RejectionMessages)
            => /\ UNCHANGED <<pendingBets, betsDb, nextBetId>>
               /\ UNCHANGED <<slip, mode, multiStake, singleStakes>>
               /\ \/ ~authed[s]
                  \/ userName[s] = << >>
                  \/ AvailableSelected(s) = {}

C11_RejectedBeforePersistence == [][C11_Step]_vars

\* placeBet was refused in a session that is logged out with a selection
\* left in its betslip: nothing is awaited, no bet exists
C11_RefusedLoggedOut ==
    \E s \in Sessions :
        /\ ~authed[s]
        /\ slip[s] # << >>
        /\ AvailableSelected(s) # {}
        /\ placeMsg[s] = "Enter access code & your name first"
        /\ pendingBets[s] = << >>
        /\ betsDb = << >>

\* a step in which session s is told that its write failed
WriteFailed(s) ==
    /\ Len(pendingBets'[s]) < Len(pendingBets[s])
    /\ placeMsg'[s] = "Failed to save bet"

\* C12: when the write of a placeBet fails, the step that reports it leaves
\* the selection, the mode, the multi stake and the singles stakes exactly
\* as they were and creates no bet; and afterwards the session can place
\* again: with nothing awaited and a Place button drawn, placeBet is enabled.
C12_Step ==
    \A s \in Sessions :
        WriteFailed(s) =>
            /\ UNCHANGED <<slip, mode, multiStake, singleStakes>>
            /\ UNCHANGED <<betsDb, nextBetId>>
            /\ UNCHANGED <<config, authed, userName>>

C12_CanPlaceAgain ==
    \A s \in Players :
        ( /\ placeMsg[s] = "Failed to save bet"
          /\ PlaceOffered(s)
          /\ userName[s] # << >>
          /\ BetsIssued < MaxBets )
        => ENABLED placeBet(s)

C12_FailureLeavesSlip == [][C12_Step]_vars /\ []C12_CanPlaceAgain

\* after a failed write the session has placed again, with the selection and
\* the stake it had entered
C12_PlacedAgainAfterFailure ==
    \E s \in Sessions :
        /\ placeMsg[s] = "Failed to save bet"
        /\ betsDb = << >>
        /\ slip[s] # << >>
        /\ multiStake[s] # DefaultMultiStake
        /\ pendingBets[s] = << betRecord(s) >>

\* a step in which the store acknowledges a write of session s
WriteAcknowledged(s) ==
    /\ Len(pendingBets'[s]) < Len(pendingBets[s])
    /\ DOMAIN betsDb' # DOMAIN betsDb

\* C13: the step in which the write of a placeBet is acknowledged clears the
\* betslip: no leg is selected, the singles stakes are empty and the multi
\* stake is back at its initial value of 10.00.
C13_Step ==
    \A s \in Sessions :
        WriteAcknowledged(s) =>
            /\ slip'[s] = << >>
            /\ DOMAIN singleStakes'[s] = {}
            /\ multiStake'[s] = DefaultMultiStake

C13_ClearedOnSuccess == [][C13_Step]_vars

\* a multi bet with an entered stake is stored and the betslip it came from
\* is empty, its stake back at the initial value
C13_StoredAndCleared ==
    \E s \in Sessions : \E id \in DOMAIN betsDb :
        /\ betsDb[id].mode = "multi"
        /\ betsDb[id].multiStake # DefaultMultiStake
        /\ betsDb[id].legs # << >>
        /\ placeMsg[s] = "Bet saved to cloud!"
        /\ slip[s] = << >>
        /\ multiStake[s] = DefaultMultiStake

\* a list without a repeated element
DuplicateFree(sq) == Cardinality(Range(sq)) = Len(sq)

\* C14: no leg id occurs twice in a betslip, and from every betslip reached,
\* for every leg id, a toggle selects the id if it is absent and deselects
\* it if it is present, keeps the slip free of duplicates, and a second
\* toggle of the same id gives back the selection the slip held, as a set.
C14_ToggleInvolutive ==
    \A s \in Sessions :
        /\ DuplicateFree(slip[s])
        /\ \A id \in LegIdsOf(config[s]) \cup Range(slip[s]) :
            LET once == toggleSelect(slip[s], id)
                twice == toggleSelect(once, id)
            IN  /\ Range(once) = IF id \in Range(slip[s])
                                 THEN Range(slip[s]) \ {id}
                                 ELSE Range(slip[s]) \cup {id}
                /\ DuplicateFree(once)
                /\ Range(twice) = Range(slip[s])
                /\ DuplicateFree(twice)

\* a betslip of two legs: toggling its first leg twice gives the same
\* selection, in another order
C14_TwoSelectedToggledTwice ==
    \E s \in Sessions :
        /\ Len(slip[s]) = 2
        /\ toggleSelect(slip[s], slip[s][1]) = << slip[s][2] >>
        /\ toggleSelect(toggleSelect(slip[s], slip[s][1]), slip[s][1])
                = << slip[s][2], slip[s][1] >>

\* the ids of the legs of market m in catalog cfg
LegIdsOfMarket(cfg, m) ==
    { l.id : l \in { ll \in Range(flatLegs(cfg)) : ll.marketId = m } }

\* a step in which session s edits its catalog so that market m is gone
MarketRemoved(s, m) ==
    /\ edits' = edits + 1
    /\ m \in MarketIdsOf(config[s])
    /\ m \notin MarketIdsOf(config'[s])

\* C15: a step in which a session removes a market leaves none of the
\* market's legs in the session's catalog and none of their ids in the
\* session's betslip.
C15_Step ==
    \A s \in Sessions : \A m \in MarketIdsOf(config[s]) :
        MarketRemoved(s, m) =>
            /\ LegIdsOfMarket(config[s], m) \cap LegIdsOf(config'[s]) = {}
            /\ LegIdsOfMarket(config[s], m) \cap Range(slip'[s]) = {}

C15_RemoveMarketDropsSelections == [][C15_Step]_vars

\* a step in which session s edits its catalog so that leg l is gone while
\* the market that held it stays
LegRemoved(s, l) ==
    /\ edits' = edits + 1
    /\ l \in LegIdsOf(config[s])
    /\ l \notin LegIdsOf(config'[s])
    /\ MarketIdsOf(config'[s]) = MarketIdsOf(config[s])

\* C16: a step in which a session removes a leg takes the leg's id out of
\* the session's betslip and leaves the other selected ids as they were;
\* the catalog keeps its title, its markets with their names and flags, and
\* every other leg, unchanged and in order; and the bets of the store, the
\* bets awaited and the bets the sessions hold are unchanged.
C16_Step ==
    \A s \in Sessions : \A l \in LegIdsOf(config[s]) :
        LegRemoved(s, l) =>
            /\ slip'[s] = SelectSeq(slip[s], LAMBDA id : id # l)
            /\ config'[s].eventTitle = config[s].eventTitle
            /\ Len(config'[s].markets) = Len(config[s].markets)
            /\ \A i \in DOMAIN config[s].markets :
                /\ config'[s].markets[i].id = config[s].markets[i].id
                /\ config'[s].markets[i].name = config[s].markets[i].name
                /\ config'[s].markets[i].active = config[s].markets[i].active
                /\ config'[s].markets[i].legs =
                        SelectSeq(config[s].markets[i].legs,
                                  LAMBDA x : x.id # l)
            /\ UNCHANGED <<betsDb, bets, pendingBets>>

C16_RemoveLegCascade == [][C16_Step]_vars

\* leg 3 was removed from a betslip that held legs 4 and 3, after a bet on
\* leg 3 alone was stored: the slip holds leg 4, the bet its snapshot
C16_RemovedFromSlipNotFromBet ==
    \E s \in Sessions : \E id \in DOMAIN betsDb :
        /\ edits = 1
        /\ inputs = 3
        /\ 3 \notin LegIdsOf(config[s])
        /\ 1 \in MarketIdsOf(config[s])
        /\ slip[s] = <<4>>
        /\ mode[s] = "multi"
        /\ betsDb[id].mode = "multi"
        /\ betsDb[id].multiStake = DefaultMultiStake
        /\ Len(betsDb[id].legs) = 1
        /\ betsDb[id].legs[1].legId = 3
        /\ betsDb[id].legs[1].odds = 200

\* the ids of the slip of session s that name a leg of the session's
\* catalog whose own flag and whose market's flag are both on
SelectableIds(s) ==
    { id \in Range(slip[s]) :
        \E i \in DOMAIN config[s].markets :
            /\ config[s].markets[i].active
            /\ \E j \in DOMAIN config[s].markets[i].legs :
                /\ config[s].markets[i].legs[j].id = id
                /\ config[s].markets[i].legs[j].active }

IdsOf(legs) == { legs[i].id : i \in DOMAIN legs }

\* C17: selectedLegs lists, once each, exactly the catalog legs whose id is
\* in the slip and whose own flag and market's flag are on; a catalog edit
\* that turns such a leg or its market off takes the leg out of selectedLegs
\* and leaves the slip as it was; and a bet that placeBet issues carries
\* exactly the legs selectedLegs lists.
C17_State ==
    \A s \in Sessions :
        LET sel == selectedLegs(config[s], slip[s])
        IN  /\ IdsOf(sel) = SelectableIds(s)
            /\ Cardinality(IdsOf(sel)) = Len(sel)

C17_Step ==
    \A s \in Sessions :
        /\ (edits' = edits + 1 /\ LegIdsOf(config'[s]) = LegIdsOf(config[s]))
            => /\ slip'[s] = slip[s]
               /\ \A l \in Range(flatLegs(config'[s])) :
                    (~l.active \/ ~l.marketActive) =>
                        l.id \notin IdsOf(selectedLegs(config'[s], slip'[s]))
        /\ Len(pendingBets'[s]) > Len(pendingBets[s]) =>
                LET rec == pendingBets'[s][Len(pendingBets'[s])]
                IN  { rec.legs[i].legId : i \in DOMAIN rec.legs }
                        = SelectableIds(s)

C17_SelectedLegsAvailable == []C17_State /\ [][C17_Step]_vars

\* legs 3 and 4 are in the slip, the market of leg 3 was turned off while
\* leg 3 itself is on, and the bet placed meanwhile carries leg 4 alone
C17_MarketOffHidesLeg ==
    \E s \in Sessions :
        /\ slip[s] = <<3, 4>>
        /\ \E l \in Range(flatLegs(config[s])) :
                l.id = 3 /\ l.active /\ ~l.marketActive
        /\ IdsOf(selectedLegs(config[s], slip[s])) = {4}
        /\ Len(pendingBets[s]) = 1
        /\ Len(pendingBets[s][1].legs) = 1
        /\ pendingBets[s][1].legs[1].legId = 4

\* the product of a list of odds in hundredths, an odds value of 0 counted
\* as zeroAs, in units of 100^-Len(odds)
RECURSIVE ProductOf(_, _)
ProductOf(odds, zeroAs) ==
    IF odds = << >> THEN 1
    ELSE (IF Head(odds) = 0 THEN zeroAs ELSE Head(odds))
            * ProductOf(Tail(odds), zeroAs)

RECURSIVE Hundred(_)
Hundred(n) == IF n = 0 THEN 1 ELSE 100 * Hundred(n - 1)

\* x, in units of 100^-n, rounded to hundredths, a tie going up
ToHundredths(x, n) ==
    LET d == Hundred(n - 1)
    IN  (x \div d) + (IF 2 * (x % d) >= d THEN 1 ELSE 0)

\* C18 as stated: multiplyOdds of the empty list is 1, of a one-element list
\* the element rounded to 2 decimals, also when the element is 0, and of a
\* longer list the product of the odds rounded to 2 decimals.
C18_ProductOfOdds ==
    calc.pc = "combined" =>
        calc.total =
            IF calc.list = << >> THEN 100
            ELSE IF Len(calc.list) = 1 THEN clamp2(calc.list[1], 1)
            ELSE ToHundredths(ProductOf(calc.list, 0), Len(calc.list))

\* C18 as amended: multiplyOdds of the empty list is 1; of a one-element
\* list it is the element rounded to 2 decimals when the element is
\* positive, and 1 when the element is 0; of a longer list it is the product
\* of the odds, each 0 counted as 1, rounded to 2 decimals.
C18_ProductZeroAsOne ==
    calc.pc = "combined" =>
        /\ calc.list = << >> => calc.total = 100
        /\ Len(calc.list) = 1 =>
                calc.total = IF calc.list[1] = 0 THEN 100
                             ELSE clamp2(calc.list[1], 1)
        /\ Len(calc.list) >= 1 =>
                calc.total =
                    ToHundredths(ProductOf(calc.list, 100), Len(calc.list))

\* the list of the single odds value 0 combines to 1.00
C18_ZeroAloneIsOne ==
    /\ calc.pc = "combined"
    /\ calc.list = << 0 >>
    /\ calc.total = 100

\* the example of C19: legs at 2.00 and 1.50, stakes of 60.00 and 200.00
ExampleLegs == << [id |-> 3, odds |-> 200], [id |-> 4, odds |-> 150] >>
ExampleStakes == (3 :> 6000) @@ (4 :> 20000)

\* the stake that counts for the leg at position i of legs
CappedStakeAt(legs, stakes, i) ==
    LET entered == IF legs[i].id \in DOMAIN stakes THEN stakes[legs[i].id]
                   ELSE 0
        cap == stakeCapForOdds(legs[i].odds)
    IN  IF entered <= cap THEN entered ELSE cap

\* the singles totals of a betslip are the sums, over the selected legs, of
\* the capped stake and of the payout of the capped stake at the leg's odds
SinglesTotalsAreSums(s) ==
    LET legs == selectedLegs(config[s], slip[s])
        stakes == singleStakes[s]
    IN  /\ totalSinglesStake(legs, stakes) =
                SumOver(DOMAIN legs,
                    [i \in DOMAIN legs |-> CappedStakeAt(legs, stakes, i)])
        /\ totalSinglesPayout(legs, stakes) =
                SumOver(DOMAIN legs,
                    [i \in DOMAIN legs |->
                        payoutFrom(CappedStakeAt(legs, stakes, i),
                                   legs[i].odds)])

SameButResults(a, b) ==
    /\ DOMAIN a = DOMAIN b
    /\ a.eventTitle = b.eventTitle
    /\ Len(a.markets) = Len(b.markets)
    /\ \A i \in DOMAIN a.markets :
        /\ a.markets[i].id = b.markets[i].id
        /\ a.markets[i].name = b.markets[i].name
        /\ a.markets[i].active = b.markets[i].active
        /\ Len(a.markets[i].legs) = Len(b.markets[i].legs)
        /\ \A j \in DOMAIN a.markets[i].legs :
            /\ a.markets[i].legs[j].id = b.markets[i].legs[j].id
            /\ a.markets[i].legs[j].label = b.markets[i].legs[j].label
            /\ a.markets[i].legs[j].odds = b.markets[i].legs[j].odds
            /\ a.markets[i].legs[j].active = b.markets[i].legs[j].active

AllPending(cfg) ==
    \A i \in DOMAIN cfg.markets : \A j \in DOMAIN cfg.markets[i].legs :
        cfg.markets[i].legs[j].result = "pending"

\* C20: the bulk reset of a catalog gives a catalog in which every leg is
\* pending and which differs from the first in nothing else, and under
\* which every bet the session holds settles as Pending; and a step in
\* which a session installs the reset of its catalog changes no bet and
\* leaves every bet the session holds settling as Pending.
C20_State ==
    \A s \in Sessions :
        LET r == LegsReset(config[s])
        IN  /\ AllPending(r)
            /\ SameButResults(r, config[s])
            /\ \A b \in BetsOf(s) : settleBet(r, b).status = "Pending"

C20_Step ==
    \A s \in Sessions :
        (/\ edits' = edits + 1
         /\ config'[s] # config[s]
         /\ config'[s] = LegsReset(config[s])) =>
            /\ UNCHANGED <<betsDb, bets, pendingBets, slipVars>>
            /\ \A b \in Range(bets'[s]) :
                    settleBet(config'[s], b).status = "Pending"

C20_ResetAllLegs == []C20_State /\ [][C20_Step]_vars

\* one edit has turned both legs from won and lost, which the store still
\* records, to pending, and the session holds a staked bet on both
C20_BothLegsReset ==
    \E s \in Sessions : \E b \in BetsOf(s) :
        /\ edits = 1
        /\ ResultsRecorded(cloud, 3) \cup ResultsRecorded(cloud, 4)
                = {"won", "lost"}
        /\ ResultsRecorded(config[s], 3) = {"pending"}
        /\ ResultsRecorded(config[s], 4) = {"pending"}
        /\ SameButResults(config[s], cloud)
        /\ Len(b.legs) = 2
        /\ settleBet(cloud, b).status \in {"Lost", "Mixed"}
        /\ settleBet(config[s], b).status = "Pending"

\* ------------------------------------------------------------------------
\* Bet maintenance

\* the step takes a document out of the bets collection
BetRemoved == \E id \in DOMAIN betsDb : id \notin DOMAIN betsDb'

\* a batch.commit() of some session is awaited
CommitAwaited == \E s \in Sessions : \E i \in DOMAIN maint[s] :
                    maint[s][i].pc = "commit"

\* C21: bet maintenance is admin-only: a session whose admin flag is off
\* issues no bulk operation, and while no session holds the admin flag and
\* no batch issued earlier awaits its commit, no step takes a document out
\* of the bets collection or changes the archive.
C21_Step ==
    /\ \A s \in Sessions : Len(maint'[s]) > Len(maint[s]) => isAdmin[s]
    /\ (BetRemoved \/ archive' # archive) =>
            (CommitAwaited \/ \E s \in Sessions : isAdmin[s])

C21_MaintenanceAdminOnly == [][C21_Step]_vars

\* no session holds the admin flag, nothing is in flight, and a session
\* lists a stored bet whose Delete handler could be called
C21_ListedBetNoAdmin ==
    /\ \A s \in Sessions : ~isAdmin[s] /\ maint[s] = << >>
    /\ \E s \in Sessions : \E i \in DOMAIN bets[s] :
            bets[s][i].id \in DOMAIN betsDb

\* session s stops awaiting the commit of an archiving batch in this step:
\* the batch was committed or rejected
ArchiveBatchEnds(s, i) ==
    /\ i \in DOMAIN maint[s]
    /\ maint[s][i].op = "archive"
    /\ maint[s][i].pc = "commit"
    /\ maint'[s] = RemoveAt(maint[s], i)
    /\ \A t \in Sessions \ {s} : maint'[t] = maint[t]

\* C22: when the batch of archiveAndClearAllBets ends, either neither
\* collection has changed, or every document it read is in the archive
\* under its id with the data read and none of them is left in the bets
\* collection; in both cases every bet the step took out of the bets
\* collection is in the archive with the data it had, the bets it did not
\* read (placed after the read) are untouched, and the archive has lost
\* nothing.
C22_Step ==
    \A s \in Sessions : \A i \in DOMAIN maint[s] :
        ArchiveBatchEnds(s, i) =>
            LET snap == maint[s][i].snap
            IN  /\ \/ betsDb' = betsDb /\ archive' = archive
                   \/ /\ \A id \in DOMAIN snap :
                            /\ id \in DOMAIN archive'
                            /\ archive'[id] = snap[id]
                            /\ id \notin DOMAIN betsDb'
                      /\ DOMAIN archive' = DOMAIN archive \cup DOMAIN snap
                /\ \A id \in DOMAIN betsDb \ DOMAIN betsDb' :
                        id \in DOMAIN archive' /\ archive'[id] = betsDb[id]
                /\ \A id \in DOMAIN betsDb \ DOMAIN snap :
                        id \in DOMAIN betsDb' /\ betsDb'[id] = betsDb[id]
                /\ \A id \in DOMAIN archive \ DOMAIN snap :
                        id \in DOMAIN archive' /\ archive'[id] = archive[id]

C22_ArchiveLosesNoBet == [][C22_Step]_vars

\* the first bet has been archived and removed, the second, placed after
\* the batch had read the collection, is still in the bets collection
C22_ArchivedOneKeptOne ==
    /\ DOMAIN archive = {1}
    /\ DOMAIN betsDb = {2}
    /\ archive[1].placedAt = 1
    /\ \A s \in Sessions : maint[s] = << >>

\* ------------------------------------------------------------------------
\* Saving and receiving the catalog

\* the step is an admin mutation of a working catalog
CatalogMutated(s) == edits' = edits + 1 /\ config'[s] # config[s]

\* C23: every admin catalog mutation hands the new whole catalog to the
\* store in the same step: after the mutation the stored catalog is the
\* mutating session's new catalog and every other session has it on its
\* way.
C23_Step ==
    \A s \in Sessions :
        CatalogMutated(s) =>
            /\ cloud' = config'[s]
            /\ \A t \in Sessions \ {s} :
                    inbox'[t] = Append(inbox[t], config'[s])

C23_MutationIssuesSave == [][C23_Step]_vars

\* C24: a save puts the saving session's whole working catalog in the
\* store, whatever the store held, and sends that value to every other
\* session; so after two saves the store holds exactly what the later save
\* wrote.
C24_Step ==
    saves' = saves + 1 =>
        \E s \in Sessions :
            /\ cloud' = config[s]
            /\ config' = config
            /\ inbox'[s] = inbox[s]
            /\ \A t \in Sessions \ {s} :
                    inbox'[t] = Append(inbox[t], config[s])

C24_LastWriteWins == [][C24_Step]_vars

\* both sessions have saved; the later saver had not received the earlier
\* save, which is still on its way to it, and the store holds the later
\* saver's catalog, which differs from the earlier saver's
C24_EarlierSaveOverwritten ==
    /\ saves = 2
    /\ \E s \in Sessions : \E t \in Sessions \ {s} :
            /\ inbox[t] # << >>
            /\ Head(inbox[t]) = config[s]
            /\ inbox[s] # << >>
            /\ inbox[s][Len(inbox[s])] = cloud
            /\ cloud = config[t]
            /\ cloud # config[s]

\* a catalog snapshot is delivered to session s in this step
SnapshotDelivered(s) == inbox[s] # << >> /\ inbox'[s] = Tail(inbox[s])

\* C26: when a catalog snapshot is delivered to a session, the session's
\* working catalog becomes exactly the delivered value, whatever it held,
\* and its slip, mode, stakes and bets are as before; no other session's
\* catalog changes.
C26_Step ==
    \A s \in Sessions :
        SnapshotDelivered(s) =>
            /\ config'[s] = Head(inbox[s])
            /\ \A t \in Sessions \ {s} : config'[t] = config[t]
            /\ UNCHANGED <<slip, mode, multiStake, singleStakes, bets>>

C26_SnapshotReplacesCatalog == [][C26_Step]_vars

\* a session added a market to its working copy and did not save it; the
\* other session saved, the snapshot was delivered, and the market is in no
\* catalog any more, while the betslip still holds its two selections
C26_UnsavedMarketOverwritten ==
    /\ nextUid = 6
    /\ edits = 1
    /\ saves = 1
    /\ \A s \in Sessions :
            /\ inbox[s] = << >>
            /\ config[s] = cloud
            /\ 5 \notin MarketIdsOf(config[s])
    /\ \E s \in Sessions : slip[s] = <<3, 4>> /\ singleStakes[s] = (3 :> 6000)

\* ------------------------------------------------------------------------
\* Identity

\* c is the lower-case form of the character d
IsLowerOf(c, d) ==
    \/ \E n \in DOMAIN UpperCase : d = UpperCase[n] /\ c = LowerCase[n]
    \/ (\A n \in DOMAIN UpperCase : d # UpperCase[n]) /\ c = d

\* x is y without the white space around it, in lower case
IsTrimmedLower(x, y) ==
    \E i \in 0..Len(y) : \E j \in i..Len(y) :
        /\ \A k \in 1..i : y[k] \in WhiteSpace
        /\ \A k \in (j + 1)..Len(y) : y[k] \in WhiteSpace
        /\ i < j => (y[i + 1] \notin WhiteSpace /\ y[j] \notin WhiteSpace)
        /\ Len(x) = j - i
        /\ \A k \in 1..(j - i) : IsLowerOf(x[k], y[i + k])

\* k is the trimmed lower-case name, a bar, the trimmed lower-case email
IsKeyOf(k, name, email) ==
    \E p \in DOMAIN k :
        /\ k[p] = "|"
        /\ IsTrimmedLower(SubSeq(k, 1, p - 1), name)
        /\ IsTrimmedLower(SubSeq(k, p + 1, Len(k)), email)

\* x and y differ in case and in the white space around them only
SameButCaseAndSpace(x, y) ==
    \E i \in 0..Len(x) : \E j \in i..Len(x) :
        LET c == [k \in 1..(j - i) |-> toLowerCaseChar(x[i + k])]
        IN  IsTrimmedLower(c, x) /\ IsTrimmedLower(c, y)

\* the bet b of the stream is one of session s: its stored key, or without
\* one its name and email, are those of the session
OwnBet(s, b) ==
    IF "userKey" \in DOMAIN b /\ b.userKey # << >>
    THEN IsKeyOf(b.userKey, userName[s], userEmail[s])
    ELSE /\ SameButCaseAndSpace(b.userName, userName[s])
         /\ SameButCaseAndSpace(b.userEmail, userEmail[s])

\* C25: the identity key is the trimmed lower-case name, a bar and the
\* trimmed lower-case email (the two examples included); My Bets is the
\* stream restricted to the bets whose stored key, or the key of their name
\* and email when none is stored, is the session's key; and a bet placed
\* under a name and an email that differ from the session's in case and
\* surrounding white space only is in the session's My Bets.
C25_IdentityKey ==
    /\ makeUserKey(<<"A", "l", "i", "c", "e">>,
                   <<"A", "L", "I", "C", "E", "@", "E", "X", "A", "M", "P",
                     "L", "E", ".", "c", "o", "m">>)
            = <<"a", "l", "i", "c", "e", "|", "a", "l", "i", "c", "e", "@",
                "e", "x", "a", "m", "p", "l", "e", ".", "c", "o", "m">>
    /\ makeUserKey(<< >>, << >>) = <<"|">>
    /\ \A s \in Sessions :
        /\ IsKeyOf(makeUserKey(userName[s], userEmail[s]),
                   userName[s], userEmail[s])
        /\ \A b \in Range(pendingBets[s]) :
                IsKeyOf(b.userKey, b.userName, b.userEmail)
        /\ myBets(s) = SelectSeq(bets[s], LAMBDA b : OwnBet(s, b))
        /\ \A b \in BetsOf(s) :
                ( /\ SameButCaseAndSpace(b.userName, userName[s])
                  /\ SameButCaseAndSpace(b.userEmail, userEmail[s]) )
                => b \in Range(myBets(s))
        /\ (~isAdmin[s] /\ shown[s] # << >>) =>
                \A i \in DOMAIN shown[s] :
                    \E b \in Range(betsSnapshot(betsDb) \o bets[s]) :
                        b.id = shown[s][i].id

\* the player entered as " aL " with the email " A@x" and is shown, in My
\* Bets, the bet stored earlier under another spelling of the name and the
\* email
C25_OtherSpellingShown ==
    \E s \in Players :
        /\ authed[s]
        /\ userName[s] = <<" ", "a", "L", " ">>
        /\ userEmail[s] = <<" ", "A", "@", "x">>
        /\ \E b \in BetsOf(s) :
                /\ b.userName = <<"A", "l">>
                /\ b.userEmail = <<"a", "@", "X">>
                /\ b \in Range(myBets(s))
                /\ \E i \in DOMAIN shown[s] : shown[s][i].id = b.id

\* ------------------------------------------------------------------------
\* The multi betslip

\* the betslip of session s is drawn in multi mode
MultiSlipDrawn(s) ==
    authed[s] /\ mode[s] = "multi" /\ AvailableSelected(s) # {}

\* C27: in every betslip drawn in multi mode, the effective stake is the
\* smaller of the entered stake and the stake cap of the total odds of the
\* selected legs, and the payout shown, the payout of the effective stake at
\* the total odds, is at most MAX_PAYOUT.
C27_MultiPayoutWithinMax ==
    \A s \in Sessions :
        MultiSlipDrawn(s) =>
            LET odds == multiplyOdds(OddsOf(selectedLegs(config[s], slip[s])))
                effective == clampedMultiStake(config[s], slip[s], multiStake[s])
            IN  /\ effective = Min2(multiStake[s], stakeCapForOdds(odds))
                /\ payout(config[s], slip[s], multiStake[s])
                        = payoutFrom(effective, odds)
                /\ payout(config[s], slip[s], multiStake[s]) <= MAX_PAYOUT

\* the stake was entered at the cap of the odds of that moment; the odds
\* have been raised since, and the entered stake is above the present cap
C27_StakeAboveCapAfterOddsRaised ==
    \E s \in Sessions :
        /\ MultiSlipDrawn(s)
        /\ multiStake[s] # DefaultMultiStake
        /\ multiStake[s] > stakeCapForOdds(totalOdds(config[s], slip[s]))
        /\ payoutFrom(multiStake[s], totalOdds(config[s], slip[s])) > MAX_PAYOUT

\* ------------------------------------------------------------------------
\* The records placeBet creates

LegIdsIn(b) == [i \in DOMAIN b.legs |-> b.legs[i].legId]

\* every bet record, stored or awaited
AllRecords ==
    Range(betsDb) \cup UNION { Range(pendingBets[s]) : s \in Sessions }

\* session s issues a createBet in this step
CreateBetIssued(s) == Len(pendingBets'[s]) = Len(pendingBets[s]) + 1

\* C28: every bet record has at least one leg and no leg id twice, so no
\* multi bet without legs exists; and the legs of a record placeBet builds
\* are all legs that, in the placing session's catalog at that moment, are
\* in the slip, active, and in an active market.
C28_State ==
    \A b \in AllRecords :
        /\ Len(b.legs) >= 1
        /\ DuplicateFree(LegIdsIn(b))

C28_Step ==
    \A s \in Sessions :
        CreateBetIssued(s) =>
            LET b == pendingBets'[s][Len(pendingBets'[s])]
            IN  /\ Len(b.legs) >= 1
                /\ Range(LegIdsIn(b)) \subseteq
                        { l.id : l \in AvailableSelected(s) }

C28_RecordLegsAvailable == []C28_State /\ [][C28_Step]_vars

\* a createBet is awaited whose record holds one leg, while the slip holds
\* two ids: the other leg is switched off or in a market switched off
C28_HiddenLegLeftOut ==
    \E s \in Sessions :
        /\ pendingBets[s] # << >>
        /\ Len(pendingBets[s][1].legs) = 1
        /\ Len(slip[s]) = 2
        /\ Range(slip[s]) \subseteq LegIdsOf(config[s])

\* the ids of the legs session s may bet on, in catalog order
AvailableIdsInOrder(s) ==
    LET legs == SelectSeq(flatLegs(config[s]), LAMBDA l :
                    l.id \in Range(slip[s]) /\ l.active /\ l.marketActive)
    IN  [i \in DOMAIN legs |-> legs[i].id]

\* the record b holds the selection, the mode and the stake of session s
HoldsSlipOf(b, s) ==
    /\ LegIdsIn(b) = AvailableIdsInOrder(s)
    /\ b.mode = mode[s]
    /\ IF mode[s] = "multi" THEN b.multiStake = multiStake[s]
       ELSE b.stakesByLeg = singleStakes[s]

\* C29: a Place action that passes validation issues exactly one createBet,
\* for a record of the betslip as it is, whether or not an earlier createBet
\* is still awaited; a createBet that ends is taken from the awaited ones
\* and either stored once, as issued, or, when it failed, dropped with
\* nothing stored and nothing sent again.
C29_Step ==
    \A s \in Sessions :
        /\ Len(pendingBets'[s]) > Len(pendingBets[s]) =>
                /\ CreateBetIssued(s)
                /\ SubSeq(pendingBets'[s], 1, Len(pendingBets[s]))
                        = pendingBets[s]
                /\ HoldsSlipOf(pendingBets'[s][Len(pendingBets'[s])], s)
                /\ UNCHANGED <<betsDb, nextBetId>>
        /\ Len(pendingBets'[s]) < Len(pendingBets[s]) =>
                /\ pendingBets'[s] = Tail(pendingBets[s])
                /\ \/ UNCHANGED <<betsDb, nextBetId>>
                   \/ /\ nextBetId' = nextBetId + 1
                      /\ DOMAIN betsDb' = DOMAIN betsDb \cup {nextBetId}
                      /\ \A f \in DOMAIN Head(pendingBets[s]) :
                            betsDb'[nextBetId][f] = Head(pendingBets[s])[f]
                      /\ \A id \in DOMAIN betsDb : betsDb'[id] = betsDb[id]
        /\ Len(pendingBets'[s]) = Len(pendingBets[s]) =>
                pendingBets'[s] = pendingBets[s]
        /\ (placeMsg'[s] = "Failed to save bet" /\ placeMsg'[s] # placeMsg[s])
            =>  /\ pendingBets[s] # << >>
                /\ pendingBets'[s] = Tail(pendingBets[s])
                /\ UNCHANGED <<betsDb, nextBetId>>

C29_NoInFlightGuard ==
    \A s \in Players :
        ( /\ PlaceOffered(s)
          /\ userName[s] # << >>
          /\ BetsIssued < MaxBetsTwice )
        => ENABLED (placeBetWithin(s, MaxBetsTwice) /\ CreateBetIssued(s))

C29_OneAttemptPerPlace == [][C29_Step]_vars /\ []C29_NoInFlightGuard

\* Place was pressed twice before the first acknowledgement, which clears
\* the slip: two bets with the same legs and stake are stored
C29_TwoEqualBetsStored ==
    /\ DOMAIN betsDb = {1, 2}
    /\ betsDb[1].legs = betsDb[2].legs
    /\ betsDb[1].multiStake = betsDb[2].multiStake
    /\ betsDb[1].userKey = betsDb[2].userKey
    /\ \A s \in Sessions : pendingBets[s] = << >>

\* C30: the record of a createBet holds the selection, the mode and the
\* stakes of the betslip at the Place action and does not change while it is
\* awaited; the acknowledgement stores that record, whatever the betslip
\* holds by then, and empties the selection and the singles stakes and puts
\* the multi stake back to its default, whatever was selected or entered
\* since the Place action.
C30_Step ==
    \A s \in Sessions :
        /\ CreateBetIssued(s) =>
                HoldsSlipOf(pendingBets'[s][Len(pendingBets'[s])], s)
        /\ Len(pendingBets'[s]) >= Len(pendingBets[s]) =>
                SubSeq(pendingBets'[s], 1, Len(pendingBets[s]))
                    = pendingBets[s]
        /\ WriteAcknowledged(s) =>
                /\ \A f \in DOMAIN Head(pendingBets[s]) :
                        betsDb'[nextBetId][f] = Head(pendingBets[s])[f]
                /\ slip'[s] = << >>
                /\ singleStakes'[s] = << >>
                /\ multiStake'[s] = DefaultMultiStake
                /\ mode'[s] = mode[s]

C30_RecordAsPlacedSlipCleared == [][C30_Step]_vars

\* one leg was selected and placed at the default stake; a second input was
\* made while the write was awaited, and the acknowledgement has stored the
\* one-leg bet and left an empty betslip
C30_LaterInputDiscarded ==
    \E s \in Players :
        /\ inputs = 2
        /\ edits = 0
        /\ DOMAIN betsDb = {1}
        /\ LegIdsIn(betsDb[1]) = <<3>>
        /\ betsDb[1].mode = "multi"
        /\ betsDb[1].multiStake = DefaultMultiStake
        /\ pendingBets[s] = << >>
        /\ slip[s] = << >>
        /\ mode[s] = "multi"
        /\ multiStake[s] = DefaultMultiStake
        /\ placeMsg[s] = "Bet saved to cloud!"

=============================================================================
